---- MODULE Spec2Model ----
(***************************************************************************)
(* Model of scaffold-cli: the stack registry (core/project_types.py), the  *)
(* installation dispatcher and its template writers (core/installer.py),   *)
(* the process executor (utils/command_runner.py), the project-creation    *)
(* flow (core/orchestrator.py) and the dependency check of the init        *)
(* command (commands/init.py).                                             *)
(*                                                                         *)
(* Strings the code takes apart are modelled as token sequences: a command *)
(* template is the sequence of its literal chunks and replacement fields,  *)
(* a path is the sequence of its components below the working directory.   *)
(***************************************************************************)
EXTENDS Integers, Sequences, FiniteSets, TLC

\* ------------------------------------------------------------------------
\* Bounds of the model
\* ------------------------------------------------------------------------

\* how many times the same install() call is repeated on one filesystem
MaxRuns == 2

\* longest post_install list of the synthetic entries handed to install()
MaxPost == 2

\* longest list of required tools handed to validate() directly
MaxRequired == 2

\* ------------------------------------------------------------------------
\* Stack registry (core/project_types.py)
\* ------------------------------------------------------------------------

\* project_types.py: PROJECTS["frontend"]
PROJECTS_frontend ==
  <<
    [name |-> "react-vite", display_name |-> "React (Vite)", category |-> "frontend",
     command |-> <<"npm create vite@latest ", "{name}">>,
     requires |-> <<"node", "npm">>, interactive |-> TRUE, post_install |-> <<>>],
    [name |-> "react-vite-ts", display_name |-> "React + TypeScript (Vite)", category |-> "frontend",
     command |-> <<"npm create vite@latest ", "{name}", " -- --template react-ts">>,
     requires |-> <<"node", "npm">>, interactive |-> TRUE, post_install |-> <<>>],
    [name |-> "nextjs", display_name |-> "Next.js", category |-> "frontend",
     command |-> <<"npx create-next-app@latest ", "{name}">>,
     requires |-> <<"node", "npm">>, interactive |-> TRUE, post_install |-> <<>>],
    [name |-> "vue-vite", display_name |-> "Vue (Vite)", category |-> "frontend",
     command |-> <<"npm create vite@latest ", "{name}", " -- --template vue">>,
     requires |-> <<"node", "npm">>, interactive |-> TRUE, post_install |-> <<>>],
    [name |-> "vue-vite-ts", display_name |-> "Vue + TypeScript (Vite)", category |-> "frontend",
     command |-> <<"npm create vite@latest ", "{name}", " -- --template vue-ts">>,
     requires |-> <<"node", "npm">>, interactive |-> TRUE, post_install |-> <<>>],
    [name |-> "svelte", display_name |-> "Svelte (Vite)", category |-> "frontend",
     command |-> <<"npm create vite@latest ", "{name}", " -- --template svelte">>,
     requires |-> <<"node", "npm">>, interactive |-> TRUE, post_install |-> <<>>],
    [name |-> "svelte-ts", display_name |-> "Svelte + TypeScript (Vite)", category |-> "frontend",
     command |-> <<"npm create vite@latest ", "{name}", " -- --template svelte-ts">>,
     requires |-> <<"node", "npm">>, interactive |-> TRUE, post_install |-> <<>>],
    [name |-> "solidjs", display_name |-> "Solid.js (Vite)", category |-> "frontend",
     command |-> <<"npm create vite@latest ", "{name}", " -- --template solid">>,
     requires |-> <<"node", "npm">>, interactive |-> TRUE, post_install |-> <<>>],
    [name |-> "solidjs-ts", display_name |-> "Solid.js + TypeScript (Vite)", category |-> "frontend",
     command |-> <<"npm create vite@latest ", "{name}", " -- --template solid-ts">>,
     requires |-> <<"node", "npm">>, interactive |-> TRUE, post_install |-> <<>>],
    [name |-> "astro", display_name |-> "Astro", category |-> "frontend",
     command |-> <<"npm create astro@latest ", "{name}">>,
     requires |-> <<"node", "npm">>, interactive |-> TRUE, post_install |-> <<>>],
    [name |-> "angular", display_name |-> "Angular", category |-> "frontend",
     command |-> <<"npx @angular/cli new ", "{name}">>,
     requires |-> <<"node", "npm">>, interactive |-> TRUE, post_install |-> <<>>]
  >>

\* project_types.py: PROJECTS["api"]
PROJECTS_api ==
  <<
    [name |-> "express", display_name |-> "Express.js", category |-> "api",
     command |-> <<"npx express-generator ", "{name}", " --view=ejs --git">>,
     requires |-> <<"node", "npm">>, interactive |-> FALSE, post_install |-> <<>>],
    [name |-> "express-ts", display_name |-> "Express + TypeScript", category |-> "api",
     command |-> <<"custom:", "express-ts">>,
     requires |-> <<"node", "npm">>, interactive |-> FALSE, post_install |-> <<>>],
    [name |-> "nestjs", display_name |-> "NestJS", category |-> "api",
     command |-> <<"npx @nestjs/cli new ", "{name}">>,
     requires |-> <<"node", "npm">>, interactive |-> TRUE, post_install |-> <<>>],
    [name |-> "fastapi", display_name |-> "FastAPI", category |-> "api",
     command |-> <<"custom:", "fastapi">>,
     requires |-> <<"python3">>, interactive |-> FALSE, post_install |-> <<>>],
    [name |-> "flask", display_name |-> "Flask", category |-> "api",
     command |-> <<"custom:", "flask">>,
     requires |-> <<"python3">>, interactive |-> FALSE, post_install |-> <<>>],
    [name |-> "go-gin", display_name |-> "Go (Gin)", category |-> "api",
     command |-> <<"custom:", "go-gin">>,
     requires |-> <<"go">>, interactive |-> FALSE, post_install |-> <<>>],
    [name |-> "go-fiber", display_name |-> "Go (Fiber)", category |-> "api",
     command |-> <<"custom:", "go-fiber">>,
     requires |-> <<"go">>, interactive |-> FALSE, post_install |-> <<>>],
    [name |-> "go-echo", display_name |-> "Go (Echo)", category |-> "api",
     command |-> <<"custom:", "go-echo">>,
     requires |-> <<"go">>, interactive |-> FALSE, post_install |-> <<>>],
    [name |-> "rust-axum", display_name |-> "Rust (Axum)", category |-> "api",
     command |-> <<"custom:", "rust-axum">>,
     requires |-> <<"cargo">>, interactive |-> FALSE, post_install |-> <<>>],
    [name |-> "rust-actix", display_name |-> "Rust (Actix-web)", category |-> "api",
     command |-> <<"custom:", "rust-actix">>,
     requires |-> <<"cargo">>, interactive |-> FALSE, post_install |-> <<>>],
    [name |-> "django-drf", display_name |-> "Django REST Framework", category |-> "api",
     command |-> <<"custom:", "django-drf">>,
     requires |-> <<"python3">>, interactive |-> FALSE, post_install |-> <<>>],
    [name |-> "rails-api", display_name |-> "Ruby on Rails (API)", category |-> "api",
     command |-> <<"rails new ", "{name}", " --api">>,
     requires |-> <<"ruby", "rails">>, interactive |-> FALSE, post_install |-> <<>>]
  >>

\* PROJECTS["framework"] with the label "Django" on two entries
PROJECTS_framework_DuplicateLabel ==
  <<
    [name |-> "django", display_name |-> "Django", category |-> "framework",
     command |-> <<"django-admin startproject ", "{name}">>,
     requires |-> <<"python3", "django-admin">>, interactive |-> FALSE, post_install |-> <<>>],
    [name |-> "laravel", display_name |-> "Django", category |-> "framework",
     command |-> <<"composer create-project laravel/laravel ", "{name}">>,
     requires |-> <<"composer", "php">>, interactive |-> FALSE, post_install |-> <<>>],
    [name |-> "rails", display_name |-> "Ruby on Rails", category |-> "framework",
     command |-> <<"rails new ", "{name}">>,
     requires |-> <<"ruby", "rails">>, interactive |-> FALSE, post_install |-> <<>>],
    [name |-> "sveltekit", display_name |-> "SvelteKit", category |-> "framework",
     command |-> <<"npm create svelte@latest ", "{name}">>,
     requires |-> <<"node", "npm">>, interactive |-> TRUE, post_install |-> <<>>]
  >>

\* project_types.py: PROJECTS["framework"]
PROJECTS_framework ==
  <<
    [name |-> "django", display_name |-> "Django", category |-> "framework",
     command |-> <<"django-admin startproject ", "{name}">>,
     requires |-> <<"python3", "django-admin">>, interactive |-> FALSE, post_install |-> <<>>],
    [name |-> "laravel", display_name |-> "Laravel", category |-> "framework",
     command |-> <<"composer create-project laravel/laravel ", "{name}">>,
     requires |-> <<"composer", "php">>, interactive |-> FALSE, post_install |-> <<>>],
    [name |-> "rails", display_name |-> "Ruby on Rails", category |-> "framework",
     command |-> <<"rails new ", "{name}">>,
     requires |-> <<"ruby", "rails">>, interactive |-> FALSE, post_install |-> <<>>],
    [name |-> "sveltekit", display_name |-> "SvelteKit", category |-> "framework",
     command |-> <<"npm create svelte@latest ", "{name}">>,
     requires |-> <<"node", "npm">>, interactive |-> TRUE, post_install |-> <<>>]
  >>

\* PROJECTS["mobile"] with "expo" registered under the name "react-native"
PROJECTS_mobile_DuplicateName ==
  <<
    [name |-> "react-native", display_name |-> "React Native", category |-> "mobile",
     command |-> <<"npx react-native@latest init ", "{name}">>,
     requires |-> <<"node", "npm">>, interactive |-> FALSE, post_install |-> <<>>],
    [name |-> "react-native", display_name |-> "Expo (React Native)", category |-> "mobile",
     command |-> <<"npx create-expo-app@latest ", "{name}">>,
     requires |-> <<"node", "npm">>, interactive |-> TRUE, post_install |-> <<>>],
    [name |-> "flutter", display_name |-> "Flutter", category |-> "mobile",
     command |-> <<"flutter create ", "{name}">>,
     requires |-> <<"flutter">>, interactive |-> FALSE, post_install |-> <<>>]
  >>

\* PROJECTS["mobile"] with the command of "flutter" written without {name}
PROJECTS_mobile_NoPlaceholder ==
  <<
    [name |-> "react-native", display_name |-> "React Native", category |-> "mobile",
     command |-> <<"npx react-native@latest init ", "{name}">>,
     requires |-> <<"node", "npm">>, interactive |-> FALSE, post_install |-> <<>>],
    [name |-> "expo", display_name |-> "Expo (React Native)", category |-> "mobile",
     command |-> <<"npx create-expo-app@latest ", "{name}">>,
     requires |-> <<"node", "npm">>, interactive |-> TRUE, post_install |-> <<>>],
    [name |-> "flutter", display_name |-> "Flutter", category |-> "mobile",
     command |-> <<"flutter create app">>,
     requires |-> <<"flutter">>, interactive |-> FALSE, post_install |-> <<>>]
  >>

\* PROJECTS["mobile"] with "expo" declaring the category "frontend"
PROJECTS_mobile_WrongCategory ==
  <<
    [name |-> "react-native", display_name |-> "React Native", category |-> "mobile",
     command |-> <<"npx react-native@latest init ", "{name}">>,
     requires |-> <<"node", "npm">>, interactive |-> FALSE, post_install |-> <<>>],
    [name |-> "expo", display_name |-> "Expo (React Native)", category |-> "frontend",
     command |-> <<"npx create-expo-app@latest ", "{name}">>,
     requires |-> <<"node", "npm">>, interactive |-> TRUE, post_install |-> <<>>],
    [name |-> "flutter", display_name |-> "Flutter", category |-> "mobile",
     command |-> <<"flutter create ", "{name}">>,
     requires |-> <<"flutter">>, interactive |-> FALSE, post_install |-> <<>>]
  >>

\* project_types.py: PROJECTS["mobile"]
PROJECTS_mobile ==
  <<
    [name |-> "react-native", display_name |-> "React Native", category |-> "mobile",
     command |-> <<"npx react-native@latest init ", "{name}">>,
     requires |-> <<"node", "npm">>, interactive |-> FALSE, post_install |-> <<>>],
    [name |-> "expo", display_name |-> "Expo (React Native)", category |-> "mobile",
     command |-> <<"npx create-expo-app@latest ", "{name}">>,
     requires |-> <<"node", "npm">>, interactive |-> TRUE, post_install |-> <<>>],
    [name |-> "flutter", display_name |-> "Flutter", category |-> "mobile",
     command |-> <<"flutter create ", "{name}">>,
     requires |-> <<"flutter">>, interactive |-> FALSE, post_install |-> <<>>]
  >>

\* project_types.py: PROJECTS["cli"]
PROJECTS_cli ==
  <<
    [name |-> "python-cli-typer", display_name |-> "Python CLI (Typer)", category |-> "cli",
     command |-> <<"custom:", "python-cli-typer">>,
     requires |-> <<"python3">>, interactive |-> FALSE, post_install |-> <<>>],
    [name |-> "python-cli-click", display_name |-> "Python CLI (Click)", category |-> "cli",
     command |-> <<"custom:", "python-cli-click">>,
     requires |-> <<"python3">>, interactive |-> FALSE, post_install |-> <<>>],
    [name |-> "node-cli", display_name |-> "Node.js CLI", category |-> "cli",
     command |-> <<"custom:", "node-cli">>,
     requires |-> <<"node", "npm">>, interactive |-> FALSE, post_install |-> <<>>],
    [name |-> "node-cli-ts", display_name |-> "Node.js CLI (TypeScript)", category |-> "cli",
     command |-> <<"custom:", "node-cli-ts">>,
     requires |-> <<"node", "npm">>, interactive |-> FALSE, post_install |-> <<>>],
    [name |-> "go-cli-cobra", display_name |-> "Go CLI (Cobra)", category |-> "cli",
     command |-> <<"custom:", "go-cli-cobra">>,
     requires |-> <<"go">>, interactive |-> FALSE, post_install |-> <<>>],
    [name |-> "rust-cli-clap", display_name |-> "Rust CLI (Clap)", category |-> "cli",
     command |-> <<"custom:", "rust-cli-clap">>,
     requires |-> <<"cargo">>, interactive |-> FALSE, post_install |-> <<>>]
  >>

Categories == <<"frontend", "api", "framework", "mobile", "cli">>

PROJECTS ==
  ("frontend" :> PROJECTS_frontend) @@ ("api" :> PROJECTS_api) @@
  ("framework" :> PROJECTS_framework) @@ ("mobile" :> PROJECTS_mobile) @@
  ("cli" :> PROJECTS_cli)

\* get_project_categories: list(PROJECTS.keys()), in insertion order
get_project_categories == Categories

\* PROJECTS[category]: KeyError for a category that is not a key
PROJECTS_get_Subscript(category, default) ==
  [raised |-> category \notin DOMAIN PROJECTS,
   value |-> IF category \in DOMAIN PROJECTS THEN PROJECTS[category] ELSE default]

\* PROJECTS.get(category, default): the list under the key, the default for
\* any other key, and no exception
PROJECTS_get(category, default) ==
  [raised |-> FALSE,
   value |-> IF category \in DOMAIN PROJECTS THEN PROJECTS[category] ELSE default]

\* get_projects_by_category: PROJECTS.get(category, [])
get_projects_by_category(category) == PROJECTS_get(category, <<>>).value

SeqToSet(s) == {s[i] : i \in 1..Len(s)}

\* get_all_projects: the entries of every category
get_all_projects == UNION {SeqToSet(PROJECTS[c]) : c \in DOMAIN PROJECTS}

\* the list get_all_projects builds: the lists of PROJECTS.values(), in the
\* order of the keys
all_projects ==
  PROJECTS_frontend \o PROJECTS_api \o PROJECTS_framework \o PROJECTS_mobile \o
  PROJECTS_cli

\* get_project_by_name: the first entry, in the order of PROJECTS.values(),
\* whose name is `name`; <<>> stands for None
get_project_by_name(name) ==
  LET hits == {i \in 1..Len(all_projects) : all_projects[i].name = name}
  IN  IF hits = {} THEN <<>>
      ELSE <<all_projects[CHOOSE i \in hits : \A j \in hits : i <= j]>>

\* ------------------------------------------------------------------------
\* Command templates: str.format(name=...) (core/installer.py line 57)
\* ------------------------------------------------------------------------

\* replacement fields other than {name}: a positional field (IndexError), an
\* unknown keyword (KeyError) and a single brace (ValueError)
RaisingFields == {"{}", "{version}", "{"}

\* format() leaving the fields as they are
FormatToken_Identity(tok, project_name) == tok

FormatToken(tok, project_name) ==
  CASE tok = "{name}" -> project_name
    [] tok = "{{" -> "{"
    [] tok = "}}" -> "}"
    [] OTHER -> tok

\* config.command.format(name=project_name): raises when the template holds a
\* field format() cannot resolve, else substitutes every {name} field
Format(command, project_name) ==
  IF \E i \in 1..Len(command) : command[i] \in RaisingFields
    THEN [raised |-> TRUE, value |-> <<>>]
    ELSE [raised |-> FALSE,
          value |-> [i \in 1..Len(command) |-> FormatToken(command[i], project_name)]]

\* config.command.startswith("custom:")
IsCustom(config) ==
  Len(config.command) >= 1 /\ config.command[1] = "custom:"

\* config.command.split(":")[1]
CustomType(config) ==
  IF Len(config.command) >= 2 THEN config.command[2] ELSE ""

\* ------------------------------------------------------------------------
\* Process executor (utils/command_runner.py)
\* ------------------------------------------------------------------------

\* the timeout _run_with_spinner passes to subprocess.run, in seconds
SpinnerTimeout == 300

\* every call passing the timeout of _run_with_spinner
TimeoutOf_Always(show_output) == SpinnerTimeout

\* the timeout of a call: none (0) for _run_interactive
TimeoutOf(show_output) == IF show_output THEN 0 ELSE SpinnerTimeout

\* a child that could not be started (missing working directory, OSError)
NotStarted == [starts |-> FALSE, exit |-> 0, seconds |-> 0]

\* what a child process can do: not start, or run for some seconds, shorter
\* or longer than the timeout, and exit with code 0 or with another code
ChildBehaviours ==
  {NotStarted} \cup
  [starts : {TRUE}, exit : {0, 1}, seconds : {1, SpinnerTimeout + 1}]

\* subprocess.run(command, shell=True, cwd=cwd, timeout=timeout): it raises an
\* exception when the child cannot start, raises TimeoutExpired when a timeout
\* is passed and the child runs longer, else returns the exit code
subprocess_run(child, timeout) ==
  IF ~child.starts THEN "exception"
  ELSE IF timeout > 0 /\ child.seconds > timeout THEN "timeout"
  ELSE IF child.exit = 0 THEN "exit0"
  ELSE "nonzero"

ProcessOutcomes(show_output) ==
  {subprocess_run(child, TimeoutOf(show_output)) : child \in ChildBehaviours}

_run_interactive(outcome) ==
  CASE outcome = "exit0" -> TRUE
    [] outcome = "nonzero" -> FALSE
    [] OTHER -> FALSE

_run_with_spinner(outcome) ==
  CASE outcome = "exit0" -> TRUE
    [] outcome = "nonzero" -> FALSE
    [] outcome = "timeout" -> FALSE
    [] OTHER -> FALSE

\* CommandRunner.run
RunnerRun(show_output, outcome) ==
  IF show_output THEN _run_interactive(outcome) ELSE _run_with_spinner(outcome)

\* ------------------------------------------------------------------------
\* Filesystem below the working directory (pathlib.Path operations)
\* ------------------------------------------------------------------------

DIR == <<"<dir>">>

Cwd == <<>>

Parent(p) == SubSeq(p, 1, Len(p) - 1)

Join(p, q) == p \o q

IsDir(f, p) == p \in DOMAIN f /\ f[p] = DIR

Exists(f, p) == p \in DOMAIN f

Put(f, p, c) == [q \in DOMAIN f \cup {p} |-> IF q = p THEN c ELSE f[q]]

Prefixes(p) == {SubSeq(p, 1, n) : n \in 0..Len(p)}

\* Path.mkdir(parents=True, exist_ok=True)
MkdirParents(f, p) ==
  IF \E q \in Prefixes(p) : Exists(f, q) /\ ~IsDir(f, q)
    THEN [raised |-> TRUE, fs |-> f]
    ELSE [raised |-> FALSE,
          fs |-> [q \in DOMAIN f \cup Prefixes(p) |-> IF q \in DOMAIN f THEN f[q] ELSE DIR]]

\* Path.mkdir(): FileExistsError when the path exists, FileNotFoundError when
\* the parent is missing
Mkdir(f, p) ==
  IF Exists(f, p) \/ ~IsDir(f, Parent(p))
    THEN [raised |-> TRUE, fs |-> f]
    ELSE [raised |-> FALSE, fs |-> Put(f, p, DIR)]

\* Path.write_text(content)
WriteText(f, p, content) ==
  IF IsDir(f, p) \/ ~IsDir(f, Parent(p))
    THEN [raised |-> TRUE, fs |-> f]
    ELSE [raised |-> FALSE, fs |-> Put(f, p, content)]

\* content = path.read_text(); content += text; path.write_text(content)
AppendText(f, p, text) ==
  IF ~Exists(f, p) \/ IsDir(f, p)
    THEN [raised |-> TRUE, fs |-> f]
    ELSE WriteText(f, p, f[p] \o text)

\* ------------------------------------------------------------------------
\* Custom template writers (core/installer.py, _create_*): each writer is the
\* list of filesystem operations inside its try block, in source order.  A
\* path is relative to project_path; a text is named by the file it is the
\* literal of, followed by "{project_path.name}" when it is an f-string over
\* the directory name.
\* ------------------------------------------------------------------------

_create_fastapi_project ==
  <<
    [op |-> "mkdir_parents", path |-> <<>>, text |-> <<>>],
    [op |-> "write", path |-> <<"main.py">>, text |-> <<"fastapi:main.py">>],
    [op |-> "write", path |-> <<"requirements.txt">>, text |-> <<"fastapi:requirements.txt">>],
    [op |-> "write", path |-> <<"README.md">>, text |-> <<"fastapi:README.md", "{project_path.name}">>],
    [op |-> "write", path |-> <<".gitignore">>, text |-> <<"fastapi:.gitignore">>]
  >>

_create_flask_project ==
  <<
    [op |-> "mkdir_parents", path |-> <<>>, text |-> <<>>],
    [op |-> "write", path |-> <<"app.py">>, text |-> <<"flask:app.py">>],
    [op |-> "write", path |-> <<"requirements.txt">>, text |-> <<"flask:requirements.txt">>],
    [op |-> "write", path |-> <<"README.md">>, text |-> <<"flask:README.md", "{project_path.name}">>]
  >>

_create_django_drf_project ==
  <<
    [op |-> "mkdir_parents", path |-> <<>>, text |-> <<>>],
    [op |-> "write", path |-> <<"requirements.txt">>, text |-> <<"django-drf:requirements.txt">>],
    [op |-> "write", path |-> <<"README.md">>, text |-> <<"django-drf:README.md", "{project_path.name}">>]
  >>

_create_express_ts_project ==
  <<
    [op |-> "mkdir_parents", path |-> <<>>, text |-> <<>>],
    [op |-> "write", path |-> <<"package.json">>, text |-> <<"express-ts:package.json", "{project_path.name}">>],
    [op |-> "mkdir", path |-> <<"src">>, text |-> <<>>],
    [op |-> "write", path |-> <<"src", "index.ts">>, text |-> <<"express-ts:src/index.ts">>],
    [op |-> "write", path |-> <<"tsconfig.json">>, text |-> <<"express-ts:tsconfig.json">>]
  >>

_create_go_gin_project ==
  <<
    [op |-> "mkdir_parents", path |-> <<>>, text |-> <<>>],
    [op |-> "write", path |-> <<"main.go">>, text |-> <<"go-gin:main.go">>],
    [op |-> "write", path |-> <<"go.mod">>, text |-> <<"go-gin:go.mod", "{project_path.name}">>],
    [op |-> "write", path |-> <<"README.md">>, text |-> <<"go-gin:README.md", "{project_path.name}">>]
  >>

_create_go_fiber_project ==
  <<
    [op |-> "mkdir_parents", path |-> <<>>, text |-> <<>>],
    [op |-> "write", path |-> <<"main.go">>, text |-> <<"go-fiber:main.go">>],
    [op |-> "write", path |-> <<"go.mod">>, text |-> <<"go-fiber:go.mod", "{project_path.name}">>]
  >>

_create_go_echo_project ==
  <<
    [op |-> "mkdir_parents", path |-> <<>>, text |-> <<>>],
    [op |-> "write", path |-> <<"main.go">>, text |-> <<"go-echo:main.go">>],
    [op |-> "write", path |-> <<"go.mod">>, text |-> <<"go-echo:go.mod", "{project_path.name}">>]
  >>

_create_rust_axum_project ==
  <<
    [op |-> "cargo_new", path |-> <<>>, text |-> <<>>],
    [op |-> "append", path |-> <<"Cargo.toml">>, text |-> <<"rust-axum:[dependencies]">>],
    [op |-> "write", path |-> <<"src", "main.rs">>, text |-> <<"rust-axum:src/main.rs">>]
  >>

_create_rust_actix_project ==
  <<
    [op |-> "cargo_new", path |-> <<>>, text |-> <<>>],
    [op |-> "append", path |-> <<"Cargo.toml">>, text |-> <<"rust-actix:[dependencies]">>],
    [op |-> "write", path |-> <<"src", "main.rs">>, text |-> <<"rust-actix:src/main.rs">>]
  >>

_create_python_cli_typer ==
  <<
    [op |-> "mkdir_parents", path |-> <<>>, text |-> <<>>],
    [op |-> "write", path |-> <<"cli.py">>, text |-> <<"python-cli-typer:cli.py">>],
    [op |-> "write", path |-> <<"requirements.txt">>, text |-> <<"python-cli-typer:requirements.txt">>],
    [op |-> "write", path |-> <<"README.md">>, text |-> <<"python-cli-typer:README.md", "{project_path.name}">>]
  >>

_create_python_cli_click ==
  <<
    [op |-> "mkdir_parents", path |-> <<>>, text |-> <<>>],
    [op |-> "write", path |-> <<"cli.py">>, text |-> <<"python-cli-click:cli.py">>],
    [op |-> "write", path |-> <<"requirements.txt">>, text |-> <<"python-cli-click:requirements.txt">>]
  >>

_create_node_cli ==
  <<
    [op |-> "mkdir_parents", path |-> <<>>, text |-> <<>>],
    [op |-> "write", path |-> <<"package.json">>, text |-> <<"node-cli:package.json", "{project_path.name}">>],
    [op |-> "write", path |-> <<"cli.js">>, text |-> <<"node-cli:cli.js">>]
  >>

_create_node_cli_ts ==
  <<
    [op |-> "mkdir_parents", path |-> <<>>, text |-> <<>>],
    [op |-> "write", path |-> <<"package.json">>, text |-> <<"node-cli-ts:package.json", "{project_path.name}">>],
    [op |-> "mkdir", path |-> <<"src">>, text |-> <<>>],
    [op |-> "write", path |-> <<"src", "cli.ts">>, text |-> <<"node-cli-ts:src/cli.ts">>],
    [op |-> "write", path |-> <<"tsconfig.json">>, text |-> <<"node-cli-ts:tsconfig.json">>]
  >>

_create_go_cli_cobra ==
  <<
    [op |-> "mkdir_parents", path |-> <<>>, text |-> <<>>],
    [op |-> "write", path |-> <<"main.go">>, text |-> <<"go-cli-cobra:main.go">>],
    [op |-> "write", path |-> <<"go.mod">>, text |-> <<"go-cli-cobra:go.mod", "{project_path.name}">>]
  >>

_create_rust_cli_clap ==
  <<
    [op |-> "cargo_new", path |-> <<>>, text |-> <<>>],
    [op |-> "append", path |-> <<"Cargo.toml">>, text |-> <<"rust-cli-clap:[dependencies]">>],
    [op |-> "write", path |-> <<"src", "main.rs">>, text |-> <<"rust-cli-clap:src/main.rs">>]
  >>

\* the handlers table without the entry of rust-cli-clap
handlers_WithoutRustCliClap ==
  [kind \in {"fastapi", "flask", "django-drf", "express-ts", "go-gin", "go-fiber",
             "go-echo", "rust-axum", "rust-actix", "python-cli-typer",
             "python-cli-click", "node-cli", "node-cli-ts", "go-cli-cobra"} |->
     _create_fastapi_project]

\* the handlers table of _handle_custom_install
handlers ==
  ("fastapi" :> _create_fastapi_project) @@
  ("flask" :> _create_flask_project) @@
  ("django-drf" :> _create_django_drf_project) @@
  ("express-ts" :> _create_express_ts_project) @@
  ("go-gin" :> _create_go_gin_project) @@
  ("go-fiber" :> _create_go_fiber_project) @@
  ("go-echo" :> _create_go_echo_project) @@
  ("rust-axum" :> _create_rust_axum_project) @@
  ("rust-actix" :> _create_rust_actix_project) @@
  ("python-cli-typer" :> _create_python_cli_typer) @@
  ("python-cli-click" :> _create_python_cli_click) @@
  ("node-cli" :> _create_node_cli) @@
  ("node-cli-ts" :> _create_node_cli_ts) @@
  ("go-cli-cobra" :> _create_go_cli_cobra) @@
  ("rust-cli-clap" :> _create_rust_cli_clap)

\* an f-string over project_path.name
Render(text, dirname) ==
  [i \in 1..Len(text) |-> IF text[i] = "{project_path.name}" THEN dirname ELSE text[i]]

\* what `cargo new <name> --bin` leaves in a directory it creates
CargoNew(f, project_path) ==
  LET f1 == Put(f, project_path, DIR)
      f2 == Put(f1, Join(project_path, <<"Cargo.toml">>),
                <<"cargo:Cargo.toml", project_path[Len(project_path)]>>)
      f3 == Put(f2, Join(project_path, <<"src">>), DIR)
  IN  Put(f3, Join(project_path, <<"src", "main.rs">>), <<"cargo:src/main.rs">>)

\* the exit of `cargo new` run in project_path.parent: it refuses a
\* destination that exists; the child cannot start without its directory
CargoOutcomes(f, project_path) ==
  IF ~IsDir(f, Parent(project_path)) THEN {"exception"}
  ELSE IF Exists(f, project_path) THEN {"nonzero", "exception"}
  ELSE {"exit0", "nonzero", "exception"}

\* one filesystem operation of a writer, applied to project_path
ApplyOp(f, op, project_path) ==
  LET target == Join(project_path, op.path)
      dirname == project_path[Len(project_path)]
  IN  CASE op.op = "mkdir_parents" -> MkdirParents(f, target)
        [] op.op = "mkdir" -> Mkdir(f, target)
        [] op.op = "write" -> WriteText(f, target, Render(op.text, dirname))
        [] op.op = "append" -> AppendText(f, target, op.text)
        [] OTHER -> [raised |-> TRUE, fs |-> f]

\* ------------------------------------------------------------------------
\* str.capitalize() and str.lower(), character by character
\* ------------------------------------------------------------------------

LowerLetters == "abcdefghijklmnopqrstuvwxyz"

UpperLetters == "ABCDEFGHIJKLMNOPQRSTUVWXYZ"

Char(str, i) == SubSeq(str, i, i)

LowerChar(c) ==
  IF \E i \in 1..Len(UpperLetters) : Char(UpperLetters, i) = c
    THEN Char(LowerLetters, CHOOSE i \in 1..Len(UpperLetters) : Char(UpperLetters, i) = c)
    ELSE c

UpperChar(c) ==
  IF \E i \in 1..Len(LowerLetters) : Char(LowerLetters, i) = c
    THEN Char(UpperLetters, CHOOSE i \in 1..Len(LowerLetters) : Char(LowerLetters, i) = c)
    ELSE c

RECURSIVE Lower(_)
Lower(str) ==
  IF Len(str) = 0 THEN ""
  ELSE LowerChar(Char(str, 1)) \o Lower(SubSeq(str, 2, Len(str)))

Capitalize(str) ==
  IF Len(str) = 0 THEN ""
  ELSE UpperChar(Char(str, 1)) \o Lower(SubSeq(str, 2, Len(str)))

\* ------------------------------------------------------------------------
\* Dependency validator (validators/dependencies.py)
\* ------------------------------------------------------------------------

\* DependencyValidator.TOOLS without an entry for flutter
TOOLS_WithoutFlutter ==
  {"node", "npm", "python3", "pip", "django-admin", "composer", "git", "php",
   "go", "cargo", "ruby", "rails"}

\* the keys of DependencyValidator.TOOLS
TOOLS ==
  {"node", "npm", "python3", "pip", "django-admin", "composer", "git", "php",
   "go", "cargo", "ruby", "rails", "flutter"}

\* DependencyValidator.validate: the loop over `required`, where `available`
\* is the set of tools _check_tool finds
RECURSIVE ValidateFrom(_, _, _, _)
ValidateFrom(required, i, available, acc) ==
  IF i > Len(required) THEN acc
  ELSE LET tool == required[i]
       IN  IF tool \notin TOOLS
             THEN ValidateFrom(required, i + 1, available, acc)
             ELSE ValidateFrom(required, i + 1, available,
                    [all_valid |-> acc.all_valid /\ tool \in available,
                     results |-> [t \in DOMAIN acc.results \cup {tool} |->
                                    IF t = tool THEN tool \in available
                                    ELSE acc.results[t]]])

\* validate without the test `tool not in self.TOOLS`: every required tool is
\* checked and reported
validate_ReportsUnknown(required, available) ==
  [all_valid |-> \A i \in 1..Len(required) : required[i] \in available,
   results |-> [t \in SeqToSet(required) |-> t \in available]]

validate(required, available) ==
  ValidateFrom(required, 1, available, [all_valid |-> TRUE, results |-> <<>>])

\* validate_and_report reporting success whatever validate found
validate_and_report_AlwaysTrue(required, available) == TRUE

\* DependencyValidator.validate_and_report
validate_and_report(required, available) == validate(required, available).all_valid

\* ------------------------------------------------------------------------
\* Inputs of the model
\* ------------------------------------------------------------------------

\* post-install lists of length 0..MaxPost
PostInstallList(n) == [i \in 1..n |-> <<"post-step ", ToString(i)>>]

\* entries that are not in the registry: install() takes any ProjectConfig
ExtraEntry(command, interactive, n) ==
  [name |-> "demo", display_name |-> "Demo", category |-> "api",
   command |-> command, requires |-> <<"node">>, interactive |-> interactive,
   post_install |-> PostInstallList(n)]

ExtraEntries ==
  {ExtraEntry(<<"create ", "{name}">>, i, n) : i \in BOOLEAN, n \in 1..MaxPost}
  \cup {ExtraEntry(<<"custom:", "fastapi">>, FALSE, 1),
        ExtraEntry(<<"custom:", "no-such-kind">>, FALSE, 1),
        ExtraEntry(<<"custom:">>, FALSE, 0),
        ExtraEntry(<<"create ", "{name}", " --tag ", "{version}">>, FALSE, 1),
        ExtraEntry(<<"echo ", "{{", "{name}", "}}">>, FALSE, 0)}

ApiEntries == get_all_projects \cup ExtraEntries

ProjectNames == {"app"}

\* a name with a shell metacharacter in it, as a user can type it
HostileNames == {"app;id"}

\* the shell metacharacters of a name
Metacharacters(project_name) ==
  IF project_name \in HostileNames THEN {";"} ELSE {}

\* the names a user gives to `scaffold new` as its argument
UserNames == ProjectNames \cup HostileNames

\* categories asked of the registry that are not keys of PROJECTS
UnknownCategories == {"invalid", "", "Frontend"}

\* entry names asked of the registry that no entry has
UnknownNames == {"non-existent", "", "React (Vite)"}

\* the tool names handed to validate() directly: two keys of TOOLS and a name
\* that is not a key
ToolNames == {"node", "npm", "totally-fake-tool"}

\* the calls of validate(): the list of required tools, and the tools that
\* are installed on the machine (the ones _check_tool would find)
ValidateArgs ==
  [required : UNION {[1..n -> ToolNames] : n \in 0..MaxRequired},
   available : SUBSET ToolNames]

\* the calls of the registry functions
RegistryArgs ==
  [op : {"get_projects_by_category"},
   arg : SeqToSet(get_project_categories) \cup UnknownCategories]
  \cup [op : {"get_project_by_name"},
        arg : {e.name : e \in get_all_projects} \cup UnknownNames]
  \cup [op : {"get_all_projects"}, arg : {""}]

\* ------------------------------------------------------------------------
\* State
\* ------------------------------------------------------------------------

VARIABLES
  mode,      \* the entry point of this run: "api" is Installer.install called
             \* directly, "new" is ProjectOrchestrator.create_project
  args,      \* the arguments the entry point is called with
  orch,      \* create_project: its position and local variables
  events,    \* the prompts answered and the steps taken by the flow, in order
  validation,\* the value of the last DependencyValidator.validate call
  initc,     \* InitCommand.run: its position and local variables
  fs,        \* the filesystem below the working directory: path -> content
  ipc,       \* position inside Installer.install
  icfg,      \* install(): config
  iname,     \* install(): project_name
  iparent,   \* install(): parent_dir
  iskip,     \* install(): skip_post_install
  icmd,      \* install(): command, the formatted template
  iresult,   \* install(): the value returned (when ipc = "returned")
  pidx,      \* _run_post_install: index of the next post_install command
  widx,      \* template writer: index of the next filesystem operation
  wret,      \* template writer: the value it returned ("none" before)
  calls,     \* CommandRunner.run calls of the current install(), in order
  faulted,   \* the environment raised an OS error during the current install()
  history,   \* the install() calls that have returned, in order
  lookup     \* the registry or validator function called directly and the
             \* value it returned

ivars == <<ipc, icfg, iname, iparent, iskip, icmd, iresult, pidx, widx, wret, calls, faulted>>

ovars == <<orch, events, validation, initc>>

vars == <<mode, args, orch, events, validation, initc, fs, ipc, icfg, iname, iparent,
          iskip, icmd, iresult, pidx, widx, wret, calls, faulted, history, lookup>>

NONE == "<None>"

\* the answers of questionary.confirm(...).ask()
ConfirmAnswers == {"True", "False", NONE}

NoValidation == [all_valid |-> TRUE, results |-> <<>>]

NoConfig == ExtraEntry(<<>>, FALSE, 0)

IdleOrch ==
  [pc |-> "idle", name |-> NONE, monorepo |-> FALSE, category |-> NONE,
   project_config |-> NoConfig, frontend_config |-> NoConfig,
   api_config |-> NoConfig, result |-> "none", exit |-> -1]

project_path == Join(iparent, <<iname>>)

\* the filesystem a run starts on: the working directory, and the directory
\* named like the project when it is already there
InitialFs(preexisting) ==
  IF preexisting = NONE THEN (Cwd :> DIR)
  ELSE (Cwd :> DIR) @@ (<<preexisting>> :> DIR)

\* what ProjectDetector.detect reports about the directory `scaffold init`
\* runs in
DetectedProjects ==
  [type : {"react"}, package_manager : {"npm", "yarn", "pnpm", "pip", NONE},
   has_git : BOOLEAN, dependencies_installed : BOOLEAN]
  \cup [type : {"unknown"}, package_manager : {NONE}, has_git : {FALSE},
        dependencies_installed : {TRUE}]

\* the directories `scaffold init` is run in: package.json is there for the
\* node package managers and may be there when none was detected; venv may be
\* there for pip
\* `path` is the argument of `scaffold init`: none for the working directory,
\* or the name of a directory that does not exist
InitArgs ==
  {a \in [project : DetectedProjects, package_json : BOOLEAN, venv : BOOLEAN,
          path : {NONE}] :
     /\ a.package_json = TRUE \/ a.project.package_manager \in {"pip", NONE}
     /\ a.package_json = FALSE \/ a.project.package_manager # "pip"
     /\ a.venv = FALSE \/ a.project.package_manager = "pip"
     /\ a.project.type # "unknown" \/ ~a.package_json}
  \cup {[project |-> [type |-> "unknown", package_manager |-> NONE, has_git |-> FALSE,
                      dependencies_installed |-> TRUE],
         package_json |-> FALSE, venv |-> FALSE, path |-> "missing"]}

\* cli.py line 91: Path(path) if path else Path.cwd()
InitProjectPath(path) == IF path = NONE THEN Cwd ELSE <<path>>

\* the files of that directory _install_dependencies looks for
InitFs(package_json, venv) ==
  (Cwd :> DIR)
  @@ (IF package_json THEN (<<"package.json">> :> <<"package.json">>) ELSE <<>>)
  @@ (IF venv THEN (<<"venv">> :> DIR) ELSE <<>>)

IdleInit == [pc |-> "idle", result |-> "none", exit |-> -1]

NoLookup == [op |-> "none", arg |-> "", raised |-> FALSE, value |-> <<>>]

Init ==
  /\ \/ /\ mode = "api"
        /\ args \in [config : ApiEntries, project_name : ProjectNames,
                     skip_post_install : BOOLEAN]
        /\ fs = InitialFs(NONE)
     \/ /\ mode = "new"
        /\ args \in [name : {NONE, ""} \cup UserNames, monorepo : BOOLEAN,
                     preexisting : {NONE} \cup ProjectNames]
        /\ fs = InitialFs(args.preexisting)
     \/ /\ mode = "init"
        /\ args \in InitArgs
        /\ fs = InitFs(args.package_json, args.venv)
     \/ /\ mode = "registry"
        /\ args \in RegistryArgs
        /\ fs = InitialFs(NONE)
     \/ /\ mode = "validate"
        /\ args \in ValidateArgs
        /\ fs = InitialFs(NONE)
  /\ orch = IdleOrch
  /\ events = <<>>
  /\ validation = NoValidation
  /\ initc = IdleInit
  /\ ipc = "idle"
  /\ icfg = NoConfig
  /\ iname = ""
  /\ iparent = Cwd
  /\ iskip = FALSE
  /\ icmd = <<>>
  /\ iresult = FALSE
  /\ pidx = 0
  /\ widx = 0
  /\ wret = "none"
  /\ calls = <<>>
  /\ faulted = FALSE
  /\ history = <<>>
  /\ lookup = NoLookup

\* ------------------------------------------------------------------------
\* Installer.install (core/installer.py)
\* ------------------------------------------------------------------------

\* AfterPrimary with the post-install test made before the failure test
AfterPrimary_PostInstallFirst(config, skip_post_install, success) ==
  IF Len(config.post_install) > 0 /\ ~skip_post_install THEN "post_install"
  ELSE IF ~success THEN "return_false"
  ELSE "return_true"

\* AfterPrimary without the test of skip_post_install
AfterPrimary_IgnoringSkip(config, skip_post_install, success) ==
  IF ~success THEN "return_false"
  ELSE IF Len(config.post_install) > 0 THEN "post_install"
  ELSE "return_true"

\* lines 67-75: what install() does once the primary command has returned
AfterPrimary(config, skip_post_install, success) ==
  IF ~success THEN "return_false"
  ELSE IF Len(config.post_install) > 0 /\ ~skip_post_install THEN "post_install"
  ELSE "return_true"

\* _run_post_install failing when one of its steps failed
PostInstallReturn_AllSteps(successes) ==
  \A i \in 1..Len(successes) : successes[i]

\* line 95: the value of _run_post_install, given the successes of its steps
PostInstallReturn(successes) == TRUE

\* the loop of _run_post_install stopping at the first failed step
PostInstallContinues_StopOnFailure(success) == success

\* lines 90-93: whether the loop goes on after a step
PostInstallContinues(success) == TRUE

\* install() reporting success whatever the writer returned
CustomInstallReturn_AlwaysTrue(writer_result) == TRUE

\* lines 49 and 121: the value install() returns for a custom entry
CustomInstallReturn(writer_result) == writer_result

\* _handle_custom_install reporting success for a kind without a handler
UnknownCustomReturn_Skipped(custom_type) == TRUE

\* lines 123-124: the value of _handle_custom_install for a kind that has no
\* handler
UnknownCustomReturn(custom_type) == FALSE

\* lines 42-57 and 97-124: install() up to its first external operation
InstallCall(config, project_name, parent_dir, skip_post_install) ==
  /\ icfg' = config
  /\ iname' = project_name
  /\ iparent' = parent_dir
  /\ iskip' = skip_post_install
  /\ pidx' = 0
  /\ wret' = "none"
  /\ calls' = <<>>
  /\ faulted' = FALSE
  /\ IF IsCustom(config)
       THEN /\ icmd' = <<>>
            /\ IF CustomType(config) \in DOMAIN handlers
                 THEN ipc' = "writer" /\ widx' = 1 /\ iresult' = FALSE
                 ELSE /\ ipc' = "returned"
                      /\ widx' = 0
                      /\ iresult' = CustomInstallReturn(UnknownCustomReturn(CustomType(config)))
       ELSE LET command == Format(config.command, project_name)
            IN  /\ widx' = 0
                /\ iresult' = FALSE
                /\ icmd' = command.value
                /\ ipc' = IF command.raised THEN "raised" ELSE "primary"

\* what the generator leaves behind: the target directory when it exits 0,
\* possibly a partial one when it fails; nothing when it never started
GeneratorEffect(f, target, outcome, partial) ==
  IF outcome = "exit0" \/ (partial /\ outcome \in {"nonzero", "timeout"})
    THEN IF Exists(f, target) THEN f ELSE Put(f, target, DIR)
    ELSE f

\* the children a command can be in working directory cwd: none starts when
\* cwd is not a directory
ChildrenIn(f, cwd) ==
  IF IsDir(f, cwd) THEN ChildBehaviours ELSE {NotStarted}

\* one CommandRunner.run call: its arguments, the child it got, what
\* subprocess.run did and the value run() returned
Call(site, command, cwd, show_output, child) ==
  LET outcome == subprocess_run(child, TimeoutOf(show_output))
  IN  [site |-> site, command |-> command, cwd |-> cwd, show_output |-> show_output,
       child |-> child, outcome |-> outcome,
       success |-> RunnerRun(show_output, outcome)]

\* lines 60-75: the primary command
RunPrimary ==
  /\ ipc = "primary"
  /\ \E child \in ChildrenIn(fs, iparent), partial \in BOOLEAN :
       LET call == Call("install", icmd, iparent, icfg.interactive, child)
           next == AfterPrimary(icfg, iskip, call.success)
       IN  /\ calls' = Append(calls, call)
           /\ fs' = GeneratorEffect(fs, project_path, call.outcome, partial)
           /\ ipc' = IF next = "post_install" THEN "post_install" ELSE "returned"
           /\ pidx' = IF next = "post_install" THEN 1 ELSE pidx
           /\ iresult' = (next = "return_true")
  /\ UNCHANGED <<mode, args, orch, events, validation, initc, icfg, iname, iparent, iskip, icmd, widx, wret, faulted, history>>
  /\ UNCHANGED lookup

PostSuccesses(cs) == [i \in 1..Len(cs) |-> cs[i].success]

PostCalls(cs) == SelectSeq(cs, LAMBDA c : c.site = "_run_post_install")

\* lines 77-95: one iteration of the loop of _run_post_install
RunPostInstallStep ==
  /\ ipc = "post_install"
  /\ \E child \in ChildrenIn(fs, project_path) :
       LET cmd == icfg.post_install[pidx]
           call == Call("_run_post_install", cmd, project_path, FALSE, child)
           cs == Append(calls, call)
           last == pidx = Len(icfg.post_install) \/ ~PostInstallContinues(call.success)
       IN  /\ calls' = cs
           /\ pidx' = pidx + 1
           /\ ipc' = IF last THEN "returned" ELSE "post_install"
           /\ iresult' = IF last THEN PostInstallReturn(PostSuccesses(PostCalls(cs))) ELSE iresult
  /\ UNCHANGED <<mode, args, orch, events, validation, initc, fs, icfg, iname, iparent, iskip, icmd, widx, wret, faulted, history>>
  /\ UNCHANGED lookup

\* a writer's except branch removing the directory it was building
WriterExcept_RemovesTarget(f, target) ==
  [q \in {r \in DOMAIN f : Len(r) < Len(target) \/ SubSeq(r, 1, Len(target)) # target}
     |-> f[q]]

\* the filesystem a writer's `except Exception` branch leaves: it prints the
\* error and returns False, and touches no file
WriterExcept(f, target) == f

\* one operation of the template writer selected by _handle_custom_install;
\* an exception inside the try block makes the writer return False
WriterStep ==
  /\ ipc = "writer"
  /\ LET ops == handlers[CustomType(icfg)]
         op == ops[widx]
         finish(ok) ==
           /\ ipc' = "returned"
           /\ wret' = IF ok THEN "true" ELSE "false"
           /\ iresult' = CustomInstallReturn(ok)
           /\ widx' = widx
     IN  \/ /\ op.op = "cargo_new"
            /\ \E outcome \in CargoOutcomes(fs, project_path) :
                 /\ fs' = IF outcome = "exit0" THEN CargoNew(fs, project_path) ELSE fs
                 /\ faulted' = (faulted \/ (outcome # "exit0" /\ ~Exists(fs, project_path)))
                 /\ IF outcome = "exit0"
                      THEN /\ ipc' = "writer"
                           /\ widx' = widx + 1
                           /\ UNCHANGED <<wret, iresult>>
                      ELSE finish(FALSE)
         \/ /\ op.op # "cargo_new"
            /\ \E oserror \in BOOLEAN :
                 LET r == ApplyOp(fs, op, project_path)
                 IN  /\ faulted' = (faulted \/ oserror)
                     /\ fs' = IF oserror \/ r.raised
                                THEN WriterExcept(fs, project_path) ELSE r.fs
                     /\ IF oserror \/ r.raised
                          THEN finish(FALSE)
                          ELSE IF widx = Len(ops)
                            THEN finish(TRUE)
                            ELSE /\ ipc' = "writer"
                                 /\ widx' = widx + 1
                                 /\ UNCHANGED <<wret, iresult>>
  /\ UNCHANGED <<mode, args, orch, events, validation, initc, icfg, iname, iparent, iskip, icmd, pidx, calls, history>>
  /\ UNCHANGED lookup

\* ------------------------------------------------------------------------
\* Entry point "api": Installer.install called directly, MaxRuns times with
\* the same arguments on the same filesystem
\* ------------------------------------------------------------------------

Returned(r) ==
  [config |-> icfg, project_name |-> iname, parent_dir |-> iparent,
   skip_post_install |-> iskip, raised |-> r, result |-> iresult,
   calls |-> calls, faulted |-> faulted, fs |-> fs]

ApiInstall ==
  /\ mode = "api"
  /\ ipc = "idle"
  /\ Len(history) < MaxRuns
  /\ InstallCall(args.config, args.project_name, Cwd, args.skip_post_install)
  /\ UNCHANGED <<mode, args, fs, history>>
  /\ UNCHANGED ovars
  /\ UNCHANGED lookup

ApiReturn ==
  /\ mode = "api"
  /\ ipc \in {"returned", "raised"}
  /\ history' = Append(history, Returned(ipc = "raised"))
  /\ ipc' = "idle"
  /\ UNCHANGED <<mode, args, orch, events, validation, initc, fs, icfg, iname, iparent, iskip, icmd, iresult, pidx,
                 widx, wret, calls, faulted>>
  /\ UNCHANGED lookup

\* ------------------------------------------------------------------------
\* Entry point "new": ProjectOrchestrator.create_project (core/orchestrator.py)
\* ------------------------------------------------------------------------

Event(op, value) == [op |-> op, value |-> value]

\* lines 140 and 210: Path.cwd() / name
ProjectRoot(name) == <<name>>

\* `x is None` on the answer of a prompt
IsNone(answer) == answer = NONE

\* line 45: `not name`
NoName(name) == name = NONE \/ name = ""

\* the overwrite test written as `overwrite is False`
NotOverwrite_OnlyFalse(answer) == answer = "False"

\* line 60: `not overwrite`
NotOverwrite(answer) == answer # "True"

\* ------------------------------------------------------------------------
\* Exit status of the commands `new` and `init` (cli.py)
\* ------------------------------------------------------------------------

\* the commands exiting with 0 whatever the flow returned
ExitCode_AlwaysZero(result) == 0

\* cli.py lines 62-65 and 93-101: the exit status, given how the flow ended:
\* typer.Exit(1) when it returned False or the directory is missing, 0 when it
\* returned True; SystemExit(1) and an uncaught exception end the process
\* with status 1
ExitCode(result) ==
  CASE result = "True" -> 0
    [] result = "False" -> 1
    [] result = "Exit(1)" -> 1
    [] result = "SystemExit(1)" -> 1
    [] result = "raised" -> 1
    [] OTHER -> -1

\* every return of create_project, and the exit of `scaffold new` after it
Finish(o, result) ==
  [o EXCEPT !.pc = "done", !.result = result, !.exit = ExitCode(result)]

\* every way InitCommand.run ends, and the exit of `scaffold init` after it
FinishInit(c, result) ==
  [c EXCEPT !.pc = "done", !.result = result, !.exit = ExitCode(result)]


\* lines 74-77: the branch on monorepo
EnterMode(o) ==
  [o EXCEPT !.pc = IF o.monorepo THEN "prompt_frontend" ELSE "prompt_category"]

\* create_project going to the stacks without settling the mode
AfterOverwrite_SkipsMode(o) == EnterMode(o)

\* lines 64-68: the monorepo question is asked unless --monorepo was given
AfterOverwrite(o) ==
  IF ~o.monorepo THEN [o EXCEPT !.pc = "prompt_monorepo"] ELSE EnterMode(o)

\* create_project without the test of Path(name).exists()
AfterName_NoExistsTest(o, f) == AfterOverwrite(o)

\* lines 55-58: Path(name).exists()
AfterName(o, f) ==
  IF Exists(f, <<o.name>>) THEN [o EXCEPT !.pc = "prompt_overwrite"]
  ELSE AfterOverwrite(o)

\* lines 32-49: create_project up to its first prompt
CreateProject ==
  /\ mode = "new"
  /\ orch.pc = "idle"
  /\ LET o == [orch EXCEPT !.name = args.name, !.monorepo = args.monorepo]
     IN  orch' = IF NoName(args.name) THEN [o EXCEPT !.pc = "prompt_name"]
                 ELSE AfterName(o, fs)
  /\ UNCHANGED <<mode, args, events, validation, initc, fs, history>>
  /\ UNCHANGED ivars
  /\ UNCHANGED lookup

\* lines 46-53: the answer to "Project name:"; the validator refuses ""
AnswerName ==
  /\ orch.pc = "prompt_name"
  /\ \E answer \in ProjectNames \cup {NONE} :
       /\ events' = Append(events, Event("prompt:name", answer))
       /\ orch' = IF IsNone(answer) THEN Finish(orch, "False")
                  ELSE AfterName([orch EXCEPT !.name = answer], fs)
  /\ UNCHANGED <<mode, args, validation, initc, fs, history>>
  /\ UNCHANGED ivars
  /\ UNCHANGED lookup

\* lines 58-62: the answer to "Overwrite?"
AnswerOverwrite ==
  /\ orch.pc = "prompt_overwrite"
  /\ \E answer \in ConfirmAnswers :
       /\ events' = Append(events, Event("prompt:overwrite", answer))
       /\ orch' = IF NotOverwrite(answer) THEN Finish(orch, "False")
                  ELSE AfterOverwrite(orch)
  /\ UNCHANGED <<mode, args, validation, initc, fs, history>>
  /\ UNCHANGED ivars
  /\ UNCHANGED lookup

\* lines 66-77: the answer to "Create as monorepo?"
AnswerMonorepo ==
  /\ orch.pc = "prompt_monorepo"
  /\ \E answer \in ConfirmAnswers :
       /\ events' = Append(events, Event("prompt:monorepo", answer))
       /\ orch' = IF IsNone(answer) THEN Finish(orch, "False")
                  ELSE EnterMode([orch EXCEPT !.monorepo = (answer = "True")])
  /\ UNCHANGED <<mode, args, validation, initc, fs, history>>
  /\ UNCHANGED ivars
  /\ UNCHANGED lookup

DisplayNames(projects) == {projects[i].display_name : i \in 1..Len(projects)}

\* next(p for p in projects if p.display_name == selected)
FirstByDisplayName(projects, selected) ==
  projects[CHOOSE i \in 1..Len(projects) :
             /\ projects[i].display_name = selected
             /\ \A j \in 1..(i - 1) : projects[j].display_name # selected]

\* lines 84-102: the answer to "Select project type:"
AnswerCategory ==
  /\ orch.pc = "prompt_category"
  /\ \E answer \in {Capitalize(c) : c \in SeqToSet(get_project_categories)} \cup {NONE} :
       /\ events' = Append(events, Event("prompt:category", answer))
       /\ orch' = IF IsNone(answer) THEN Finish(orch, "False")
                  ELSE [orch EXCEPT !.pc = "prompt_stack", !.category = Lower(answer)]
  /\ UNCHANGED <<mode, args, validation, initc, fs, history>>
  /\ UNCHANGED ivars
  /\ UNCHANGED lookup

\* lines 104-127: the answer to "Select <category>:"
AnswerStack ==
  /\ orch.pc = "prompt_stack"
  /\ LET projects == get_projects_by_category(orch.category)
     IN  \E answer \in DisplayNames(projects) \cup {NONE} :
           /\ events' = Append(events, Event("prompt:stack", answer))
           /\ orch' = IF IsNone(answer) THEN Finish(orch, "False")
                      ELSE [orch EXCEPT !.pc = "validate",
                              !.project_config = FirstByDisplayName(projects, answer)]
  /\ UNCHANGED <<mode, args, validation, initc, fs, history>>
  /\ UNCHANGED ivars
  /\ UNCHANGED lookup

KnownTools(required) == SeqToSet(required) \cap TOOLS

\* the value of the boolean b as a log entry
Bool(b) == IF b THEN "True" ELSE "False"

\* lines 129-134: validate_and_report, then install(project_config, name)
ValidateSingle ==
  /\ orch.pc = "validate"
  /\ \E available \in SUBSET KnownTools(orch.project_config.requires) :
       LET required == orch.project_config.requires
           ok == validate_and_report(required, available)
       IN  /\ validation' = validate(required, available)
           /\ IF ~ok
                THEN /\ events' = Append(events, Event("validate", Bool(validation'.all_valid)))
                     /\ orch' = Finish(orch, "False")
                     /\ UNCHANGED ivars
                ELSE /\ events' = events \o <<Event("validate", Bool(validation'.all_valid)),
                                              Event("dispatch", orch.name)>>
                     /\ orch' = [orch EXCEPT !.pc = "dispatch"]
                     /\ InstallCall(orch.project_config, orch.name, Cwd, FALSE)
  /\ UNCHANGED <<mode, args, initc, fs, history>>
  /\ UNCHANGED lookup

\* GitManager.init_repository(project_path): what it leaves on the filesystem
GitOutcomes == {"ok", "failed", "unavailable"}

init_repository(f, path, outcome) ==
  IF outcome = "ok" /\ IsDir(f, path) /\ ~Exists(f, Join(path, <<".git">>))
    THEN Put(f, Join(path, <<".git">>), DIR)
    ELSE f

\* the flow going on whatever install() returned
DispatchFailed_Never(success) == FALSE

\* lines 136, 222 and 235: `if not success`
DispatchFailed(success) == ~success

\* lines 134-148: the result of install(), then git and the success message
AfterDispatch ==
  /\ orch.pc = "dispatch"
  /\ ipc \in {"returned", "raised"}
  /\ history' = Append(history, Returned(ipc = "raised"))
  /\ ipc' = "idle"
  /\ orch' = IF ipc = "raised" THEN Finish(orch, "raised")
             ELSE IF DispatchFailed(iresult) THEN Finish(orch, "False")
             ELSE [orch EXCEPT !.pc = "git"]
  /\ UNCHANGED <<mode, args, events, validation, initc, fs, icfg, iname, iparent, iskip,
                 icmd, iresult, pidx, widx, wret, calls, faulted>>
  /\ UNCHANGED lookup

\* the flow returning what init_repository returned
AfterGit_UsesValue(o, outcome) == Finish(o, IF outcome = "ok" THEN "True" ELSE "False")

\* lines 141-148 and 243-250: the value of init_repository is dropped, the
\* success message is shown and the flow returns True
AfterGit(o, outcome) == Finish(o, "True")

\* lines 139-148 and 242-250: init_repository, whose value is not used
GitInit ==
  /\ orch.pc = "git"
  /\ \E outcome \in GitOutcomes :
       /\ events' = Append(events, Event("git_init", outcome))
       /\ fs' = init_repository(fs, ProjectRoot(orch.name), outcome)
       /\ orch' = AfterGit(orch, outcome)
  /\ UNCHANGED <<mode, args, validation, initc, history>>
  /\ UNCHANGED ivars
  /\ UNCHANGED lookup

\* lines 156-178: the answer to "Select frontend:"
AnswerFrontend ==
  /\ orch.pc = "prompt_frontend"
  /\ LET projects == get_projects_by_category("frontend")
     IN  \E answer \in DisplayNames(projects) \cup {NONE} :
           /\ events' = Append(events, Event("prompt:frontend", answer))
           /\ orch' = IF IsNone(answer) THEN Finish(orch, "False")
                      ELSE [orch EXCEPT !.pc = "prompt_backend",
                              !.frontend_config = FirstByDisplayName(projects, answer)]
  /\ UNCHANGED <<mode, args, validation, initc, fs, history>>
  /\ UNCHANGED ivars
  /\ UNCHANGED lookup

\* lines 180-200: the answer to "Select backend API:"
AnswerBackend ==
  /\ orch.pc = "prompt_backend"
  /\ LET projects == get_projects_by_category("api")
     IN  \E answer \in DisplayNames(projects) \cup {NONE} :
           /\ events' = Append(events, Event("prompt:backend", answer))
           /\ orch' = IF IsNone(answer) THEN Finish(orch, "False")
                      ELSE [orch EXCEPT !.pc = "validate_monorepo",
                              !.api_config = FirstByDisplayName(projects, answer)]
  /\ UNCHANGED <<mode, args, validation, initc, fs, history>>
  /\ UNCHANGED ivars
  /\ UNCHANGED lookup

RECURSIVE SetToSeq(_)
SetToSeq(S) ==
  IF S = {} THEN <<>>
  ELSE LET x == CHOOSE y \in S : TRUE IN <<x>> \o SetToSeq(S \ {x})

\* the directories of the two sides of a monorepo (lines 217 and 230)
WebDir == "web"

ApiDir == "api"

\* lines 215-220: the arguments of the frontend install
InstallFrontend(o) ==
  [config |-> o.frontend_config, project_name |-> WebDir,
   parent_dir |-> ProjectRoot(o.name), skip_post_install |-> TRUE]

\* the backend install without skip_post_install
InstallBackend_DefaultSkip(o) ==
  [config |-> o.api_config, project_name |-> ApiDir,
   parent_dir |-> ProjectRoot(o.name), skip_post_install |-> FALSE]

\* lines 228-233: the arguments of the backend install
InstallBackend(o) ==
  [config |-> o.api_config, project_name |-> ApiDir,
   parent_dir |-> ProjectRoot(o.name), skip_post_install |-> TRUE]

InstallWith(a) == InstallCall(a.config, a.project_name, a.parent_dir, a.skip_post_install)

\* lines 202-220: validation, the root directory, the frontend install
ValidateMonorepo ==
  /\ orch.pc = "validate_monorepo"
  /\ LET all_deps == SetToSeq(SeqToSet(orch.frontend_config.requires \o
                                        orch.api_config.requires))
         project_root == ProjectRoot(orch.name)
         made == MkdirParents(fs, project_root)
     IN  \E available \in SUBSET KnownTools(all_deps) :
           LET ok == validate_and_report(all_deps, available)
           IN  /\ validation' = validate(all_deps, available)
               /\ IF ~ok
                    THEN /\ events' = Append(events, Event("validate", Bool(validation'.all_valid)))
                         /\ orch' = Finish(orch, "False")
                         /\ fs' = fs
                         /\ UNCHANGED ivars
                    ELSE IF made.raised
                      THEN /\ events' = Append(events, Event("validate", Bool(validation'.all_valid)))
                           /\ orch' = Finish(orch, "raised")
                           /\ fs' = fs
                           /\ UNCHANGED ivars
                      ELSE /\ events' = events \o <<Event("validate", Bool(validation'.all_valid)),
                                                    Event("mkdir", orch.name),
                                                    Event("dispatch", WebDir)>>
                           /\ orch' = [orch EXCEPT !.pc = "dispatch_web"]
                           /\ fs' = made.fs
                           /\ InstallWith(InstallFrontend(orch))
  /\ UNCHANGED <<mode, args, initc, history>>
  /\ UNCHANGED lookup

\* lines 222-233: the result of the frontend install, then the backend install
AfterFrontend ==
  /\ orch.pc = "dispatch_web"
  /\ ipc \in {"returned", "raised"}
  /\ history' = Append(history, Returned(ipc = "raised"))
  /\ IF ipc = "raised" \/ DispatchFailed(iresult)
       THEN /\ orch' = Finish(orch, IF ipc = "raised" THEN "raised" ELSE "False")
            /\ ipc' = "idle"
            /\ UNCHANGED <<events, icfg, iname, iparent, iskip, icmd, iresult, pidx,
                           widx, wret, calls, faulted>>
       ELSE /\ orch' = [orch EXCEPT !.pc = "dispatch_api"]
            /\ events' = Append(events, Event("dispatch", ApiDir))
            /\ InstallWith(InstallBackend(orch))
  /\ UNCHANGED <<mode, args, validation, initc, fs>>
  /\ UNCHANGED lookup

\* _create_monorepo_readme: an f-string over the root name and the two labels
MonorepoReadme(o) ==
  <<"monorepo:README.md", o.name, o.frontend_config.display_name,
    o.api_config.display_name>>

\* lines 235-240: the result of the backend install, then the root README
AfterBackend ==
  /\ orch.pc = "dispatch_api"
  /\ ipc \in {"returned", "raised"}
  /\ history' = Append(history, Returned(ipc = "raised"))
  /\ ipc' = "idle"
  /\ IF ipc = "raised" \/ DispatchFailed(iresult)
       THEN /\ orch' = Finish(orch, IF ipc = "raised" THEN "raised" ELSE "False")
            /\ UNCHANGED <<events, fs>>
       ELSE \E oserror \in BOOLEAN :
              LET w == WriteText(fs, Join(ProjectRoot(orch.name), <<"README.md">>), MonorepoReadme(orch))
              IN  IF oserror \/ w.raised
                    THEN /\ orch' = Finish(orch, "raised")
                         /\ UNCHANGED <<events, fs>>
                    ELSE /\ orch' = [orch EXCEPT !.pc = "git"]
                         /\ events' = Append(events, Event("readme", orch.name))
                         /\ fs' = w.fs
  /\ UNCHANGED <<mode, args, validation, initc, icfg, iname, iparent, iskip, icmd, iresult,
                 pidx, widx, wret, calls, faulted>>
  /\ UNCHANGED lookup

\* ------------------------------------------------------------------------
\* Entry point "init": InitCommand.run (commands/init.py)
\* ------------------------------------------------------------------------

\* lines 135-144 of _check_system_dependencies: the tools to look for
RequiredTools(project) ==
  (IF project.package_manager \in {"npm", "yarn", "pnpm"} THEN <<"node", "npm">>
   ELSE IF project.package_manager = "pip" THEN <<"python3", "pip">>
   ELSE <<>>)
  \o (IF ~project.has_git THEN <<"git">> ELSE <<>>)

\* line 154: `not questionary.confirm("Continue anyway?").ask()`
NotContinue(answer) == answer # "True"

\* lines 65-74: the git question is asked when the project has no repository
AfterInstallStep(c, project) ==
  [c EXCEPT !.pc = IF ~project.has_git THEN "prompt_git" ELSE "prompt_env"]

\* lines 57-63: the install question is asked when dependencies are missing
AfterCheck(c, project) ==
  IF ~project.dependencies_installed THEN [c EXCEPT !.pc = "prompt_install"]
  ELSE AfterInstallStep(c, project)

\* cli.py lines 91-95, then lines 40-55 and 133-152 of init.py: the test of
\* the directory, detection and the check of the system tools
InitRun ==
  /\ mode = "init"
  /\ initc.pc = "idle"
  /\ IF ~Exists(fs, InitProjectPath(args.path))
       THEN /\ initc' = FinishInit(initc, "Exit(1)")
            /\ UNCHANGED <<events, validation>>
       ELSE IF args.project.type = "unknown"
       THEN /\ initc' = FinishInit(initc, "False")
            /\ UNCHANGED <<events, validation>>
       ELSE \E available \in SUBSET KnownTools(RequiredTools(args.project)) :
              LET v == validate(RequiredTools(args.project), available)
              IN  /\ validation' = v
                  /\ events' = Append(events, Event("validate", Bool(v.all_valid)))
                  /\ initc' = IF ~v.all_valid THEN [initc EXCEPT !.pc = "prompt_continue"]
                              ELSE AfterCheck(initc, args.project)
  /\ UNCHANGED <<mode, args, orch, fs, history>>
  /\ UNCHANGED ivars
  /\ UNCHANGED lookup

\* lines 154-155: the answer to "Continue anyway?"
AnswerContinue ==
  /\ initc.pc = "prompt_continue"
  /\ \E answer \in ConfirmAnswers :
       /\ events' = Append(events, Event("prompt:continue", answer))
       /\ initc' = IF NotContinue(answer)
                     THEN FinishInit(initc, "SystemExit(1)")
                     ELSE AfterCheck(initc, args.project)
  /\ UNCHANGED <<mode, args, orch, validation, fs, history>>
  /\ UNCHANGED ivars
  /\ UNCHANGED lookup

\* _install_dependencies without the fallback to npm when package.json exists
InstallCommands_NoFallback(project, f) ==
  CASE project.package_manager = "npm" -> <<"npm install">>
    [] project.package_manager = "yarn" -> <<"yarn install">>
    [] project.package_manager = "pip" ->
         (IF ~Exists(f, <<"venv">>) THEN <<"python3 -m venv venv">> ELSE <<>>)
         \o <<"./venv/bin/pip install -r requirements.txt">>
    [] OTHER -> <<>>

\* lines 162-202 of _install_dependencies: the commands it runs, in order
InstallCommands(project, f) ==
  LET pm == IF project.package_manager = NONE /\ Exists(f, <<"package.json">>)
              THEN "npm" ELSE project.package_manager
  IN  CASE pm = "npm" -> <<"npm install">>
        [] pm = "yarn" -> <<"yarn install">>
        [] pm = "pip" -> (IF ~Exists(f, <<"venv">>) THEN <<"python3 -m venv venv">> ELSE <<>>)
                         \o <<"./venv/bin/pip install -r requirements.txt">>
        [] OTHER -> <<>>

\* lines 59-63 and 157-209: the answer to "Install project dependencies?"
AnswerInstall ==
  /\ initc.pc = "prompt_install"
  /\ \E answer \in ConfirmAnswers :
       LET cmds == InstallCommands(args.project, fs)
       IN  /\ events' = Append(events, Event("prompt:install", answer))
           /\ IF answer = "True"
                THEN \E children \in [1..Len(cmds) -> ChildBehaviours] :
                       calls' = calls \o
                         [i \in 1..Len(cmds) |->
                            Call("_install_dependencies", <<cmds[i]>>, Cwd, FALSE, children[i])]
                ELSE calls' = calls
  /\ initc' = AfterInstallStep(initc, args.project)
  /\ UNCHANGED <<mode, args, orch, validation, fs, history>>
  /\ UNCHANGED <<ipc, icfg, iname, iparent, iskip, icmd, iresult, pidx, widx, wret, faulted>>
  /\ UNCHANGED lookup

\* lines 66-74: the answer to "Initialize git repository?"
AnswerGit ==
  /\ initc.pc = "prompt_git"
  /\ \E answer \in ConfirmAnswers :
       IF answer = "True"
         THEN \E outcome \in GitOutcomes :
                /\ events' = events \o <<Event("prompt:git", answer), Event("git_init", outcome)>>
                /\ fs' = init_repository(fs, Cwd, outcome)
         ELSE /\ events' = Append(events, Event("prompt:git", answer))
              /\ fs' = fs
  /\ initc' = [initc EXCEPT !.pc = "prompt_env"]
  /\ UNCHANGED <<mode, args, orch, validation, history>>
  /\ UNCHANGED ivars
  /\ UNCHANGED lookup

\* lines 76-81: the answer to "Set up environment configuration?"
AnswerEnv ==
  /\ initc.pc = "prompt_env"
  /\ \E answer \in ConfirmAnswers :
       events' = IF answer = "True"
                   THEN events \o <<Event("prompt:env", answer), Event("setup_environment", "")>>
                   ELSE Append(events, Event("prompt:env", answer))
  /\ initc' = [initc EXCEPT !.pc = "prompt_docker"]
  /\ UNCHANGED <<mode, args, orch, validation, fs, history>>
  /\ UNCHANGED ivars
  /\ UNCHANGED lookup

\* lines 83-93: the answer to "Set up Docker?", the summary, return True
AnswerDocker ==
  /\ initc.pc = "prompt_docker"
  /\ \E answer \in ConfirmAnswers :
       events' = IF answer = "True"
                   THEN events \o <<Event("prompt:docker", answer), Event("setup_docker", "")>>
                   ELSE Append(events, Event("prompt:docker", answer))
  /\ initc' = FinishInit(initc, "True")
  /\ UNCHANGED <<mode, args, orch, validation, fs, history>>
  /\ UNCHANGED ivars
  /\ UNCHANGED lookup

\* ------------------------------------------------------------------------
\* Entry point "registry": the lookup functions of core/project_types.py
\* ------------------------------------------------------------------------

GetProjectsByCategory ==
  /\ mode = "registry"
  /\ args.op = "get_projects_by_category"
  /\ lookup = NoLookup
  /\ lookup' = [op |-> args.op, arg |-> args.arg,
                raised |-> PROJECTS_get(args.arg, <<>>).raised,
                value |-> get_projects_by_category(args.arg)]
  /\ UNCHANGED <<mode, args, fs, history>>
  /\ UNCHANGED ovars
  /\ UNCHANGED ivars

GetProjectByName ==
  /\ mode = "registry"
  /\ args.op = "get_project_by_name"
  /\ lookup = NoLookup
  /\ lookup' = [op |-> args.op, arg |-> args.arg, raised |-> FALSE,
                value |-> get_project_by_name(args.arg)]
  /\ UNCHANGED <<mode, args, fs, history>>
  /\ UNCHANGED ovars
  /\ UNCHANGED ivars

GetAllProjects ==
  /\ mode = "registry"
  /\ args.op = "get_all_projects"
  /\ lookup = NoLookup
  /\ lookup' = [op |-> args.op, arg |-> args.arg, raised |-> FALSE,
                value |-> all_projects]
  /\ UNCHANGED <<mode, args, fs, history>>
  /\ UNCHANGED ovars
  /\ UNCHANGED ivars

\* ------------------------------------------------------------------------
\* Entry point "validate": DependencyValidator.validate called directly
\* ------------------------------------------------------------------------

ValidateCall ==
  /\ mode = "validate"
  /\ lookup = NoLookup
  /\ validation' = validate(args.required, args.available)
  /\ lookup' = [op |-> "validate", arg |-> "", raised |-> FALSE, value |-> <<>>]
  /\ UNCHANGED <<mode, args, orch, events, initc, fs, history>>
  /\ UNCHANGED ivars

Next ==
  \/ ApiInstall
  \/ RunPrimary
  \/ RunPostInstallStep
  \/ WriterStep
  \/ ApiReturn
  \/ CreateProject
  \/ AnswerName
  \/ AnswerOverwrite
  \/ AnswerMonorepo
  \/ AnswerCategory
  \/ AnswerStack
  \/ ValidateSingle
  \/ AfterDispatch
  \/ GitInit
  \/ AnswerFrontend
  \/ AnswerBackend
  \/ ValidateMonorepo
  \/ AfterFrontend
  \/ AfterBackend
  \/ InitRun
  \/ AnswerContinue
  \/ AnswerInstall
  \/ AnswerGit
  \/ AnswerEnv
  \/ AnswerDocker
  \/ GetProjectsByCategory
  \/ GetProjectByName
  \/ GetAllProjects
  \/ ValidateCall

Spec == Init /\ [][Next]_vars

\* the flow is synchronous and single-threaded: the step that is next is
\* taken, every prompt is answered and every child process ends or times out
FairSpec == Spec /\ WF_vars(Next)

\* ------------------------------------------------------------------------
\* Properties of Installer.install
\* ------------------------------------------------------------------------

PrimaryCalls == SelectSeq(calls, LAMBDA c : c.site = "install")

PrimaryExitedZero ==
  \E i \in 1..Len(calls) : calls[i].site = "install" /\ calls[i].outcome = "exit0"

PrimaryFailed ==
  \E i \in 1..Len(calls) : calls[i].site = "install" /\ calls[i].outcome # "exit0"

AllPostStepsFailed ==
  /\ Len(PostCalls(calls)) = Len(icfg.post_install)
  /\ \A i \in 1..Len(calls) :
       calls[i].site = "_run_post_install" => calls[i].outcome # "exit0"

\* C1: for a non-custom entry whose primary command exits 0, install() with
\* skip_post_install = False returns True, whichever post-install steps fail.
PostInstallLeniency ==
  (ipc = "returned" /\ ~IsCustom(icfg) /\ ~iskip /\ PrimaryExitedZero)
    => iresult = TRUE

\* C1 witness: install() has returned True although every one of at least two
\* post-install steps failed.
PostInstallLeniencyWitness ==
  /\ ipc = "returned"
  /\ ~IsCustom(icfg)
  /\ ~iskip
  /\ PrimaryExitedZero
  /\ Len(icfg.post_install) >= 2
  /\ AllPostStepsFailed
  /\ iresult = TRUE

\* C2: for a non-custom entry whose primary command fails (non-zero exit or
\* timeout), install() returns False and no post-install command is run.
PrimaryFailureSkipsPostInstall ==
  (~IsCustom(icfg) /\ PrimaryFailed)
    => /\ PostCalls(calls) = <<>>
       /\ ipc \in {"returned", "idle"}
       /\ ipc = "returned" => iresult = FALSE
       /\ ipc = "idle" => (history # <<>> /\ history[Len(history)].result = FALSE)

\* C2 witness: the primary command of an entry with post-install steps timed
\* out and install() returned False, with post-install enabled.
PrimaryFailureWitness ==
  /\ ipc = "returned"
  /\ ~IsCustom(icfg)
  /\ ~iskip
  /\ Len(icfg.post_install) > 0
  /\ Len(calls) = 1
  /\ calls[1].site = "install"
  /\ calls[1].outcome = "timeout"
  /\ iresult = FALSE

\* C3: install() with skip_post_install = True never runs a post-install
\* command, and its result is the success of the primary command.
SkipPostInstallRunsNone ==
  iskip => /\ PostCalls(calls) = <<>>
           /\ ipc # "post_install"
           /\ (ipc = "returned" /\ ~IsCustom(icfg)) => (iresult = PrimaryExitedZero)

\* C3 witness: an entry that declares post-install steps was installed with
\* skip_post_install = True, the primary command exited 0 and install()
\* returned True after that single call.
SkipPostInstallWitness ==
  /\ ipc = "returned"
  /\ iskip
  /\ ~IsCustom(icfg)
  /\ Len(icfg.post_install) > 0
  /\ PrimaryExitedZero
  /\ Len(calls) = 1
  /\ iresult = TRUE

\* C4: for a custom entry install() makes no CommandRunner call at all (no
\* primary command, no post-install command even when some are declared and
\* skip_post_install is False) and returns what the template writer returned.
CustomDelegatesToWriter ==
  (IsCustom(icfg) /\ ipc # "idle")
    => /\ calls = <<>>
       /\ ipc \in {"writer", "returned"}
       /\ (ipc = "returned" /\ CustomType(icfg) \in DOMAIN handlers)
            => (wret # "none" /\ iresult = (wret = "true"))

\* C4 witness: a custom entry that declares a post-install step was installed
\* with skip_post_install = False; the writer wrote its files and returned
\* True, and so did install().
CustomDelegatesWitness ==
  /\ ipc = "returned"
  /\ IsCustom(icfg)
  /\ Len(icfg.post_install) > 0
  /\ ~iskip
  /\ wret = "true"
  /\ iresult = TRUE
  /\ Exists(fs, Join(project_path, <<"main.py">>))
  /\ calls = <<>>

\* C9: no exception escapes install(): every call returns a value.
InstallNeverRaises == ipc # "raised"

\* C10: two install() calls of the same custom entry with the same name on the
\* same directory, without an error of the operating system, both return True
\* and leave the same files with the same content.
TemplateWriterIdempotent ==
  (/\ mode = "api"
   /\ IsCustom(args.config)
   /\ CustomType(args.config) \in DOMAIN handlers
   /\ Len(history) >= 2
   /\ ~history[1].faulted
   /\ ~history[2].faulted)
    => /\ history[1].result = TRUE
       /\ history[2].result = TRUE
       /\ history[2].fs = history[1].fs

\* ------------------------------------------------------------------------
\* Properties of the project-creation flow
\* ------------------------------------------------------------------------

PromptOps ==
  {"prompt:name", "prompt:overwrite", "prompt:monorepo", "prompt:category",
   "prompt:stack", "prompt:frontend", "prompt:backend"}

HasEvent(op) == \E i \in 1..Len(events) : events[i].op = op

\* nothing of validation, directory creation, dispatch or git has happened
NothingRan ==
  /\ ~HasEvent("validate")
  /\ ~HasEvent("mkdir")
  /\ ~HasEvent("dispatch")
  /\ ~HasEvent("readme")
  /\ ~HasEvent("git_init")
  /\ validation = NoValidation
  /\ history = <<>>
  /\ ipc = "idle"
  /\ calls = <<>>
  /\ fs = InitialFs(args.preexisting)

\* C5: when a prompt of the creation flow returns no answer, create_project
\* returns False and nothing runs after that prompt: no later prompt, no
\* validation, no directory creation, no dispatch, no git initialisation.
CancelStopsFlow ==
  mode = "new" =>
    \A i \in 1..Len(events) :
      (events[i].op \in PromptOps /\ events[i].value = NONE)
        => /\ i = Len(events)
           /\ orch.pc = "done"
           /\ orch.result = "False"
           /\ NothingRan

\* C5 witness: the monorepo flow was cancelled at its last prompt, after the
\* frontend had been chosen.
CancelStopsFlowWitness ==
  /\ mode = "new"
  /\ HasEvent("prompt:frontend")
  /\ events[Len(events)] = Event("prompt:backend", NONE)
  /\ orch.pc = "done"
  /\ orch.result = "False"

\* the install() calls of the flow: those that returned and the running one
Dispatches ==
  history \o (IF ipc # "idle" THEN <<Returned(ipc = "raised")>> ELSE <<>>)

\* C6: in the monorepo flow install() is called at most twice, for the
\* frontend into "web" and then, once that call has returned True, for the
\* backend into "api"; both calls have the parent directory <cwd>/<name> and
\* skip_post_install = True, no post-install command is run, and a flow that
\* succeeds has made both calls.
MonorepoDispatches ==
  (mode = "new" /\ orch.monorepo) =>
    LET D == Dispatches
    IN  /\ Len(D) <= 2
        /\ Len(D) >= 1 =>
             /\ D[1].config = orch.frontend_config
             /\ D[1].project_name = "web"
        /\ Len(D) = 2 =>
             /\ Len(history) >= 1
             /\ history[1].result = TRUE
             /\ D[2].config = orch.api_config
             /\ D[2].project_name = "api"
        /\ \A i \in 1..Len(D) :
             /\ D[i].parent_dir = <<orch.name>>
             /\ D[i].skip_post_install = TRUE
             /\ PostCalls(D[i].calls) = <<>>
        /\ orch.result = "True" => Len(history) = 2

\* C6 witness: both installs have returned True and both directories are
\* siblings below the root directory.
MonorepoDispatchesWitness ==
  /\ mode = "new"
  /\ orch.monorepo
  /\ Len(history) = 2
  /\ history[1].result = TRUE
  /\ history[2].result = TRUE
  /\ IsDir(fs, <<orch.name, "web">>)
  /\ IsDir(fs, <<orch.name, "api">>)
  /\ orch.result = "True"

SomeDispatchFailed ==
  \E i \in 1..Len(history) : ~history[i].raised /\ history[i].result = FALSE

\* C7: when one of the two installs of the monorepo flow returns False the
\* flow returns False, writes no root README, does not initialise git and
\* removes nothing: the root directory and what the installs created remain.
MonorepoFailureKeepsOutput ==
  (mode = "new" /\ orch.monorepo /\ SomeDispatchFailed) =>
    /\ orch.pc = "done"
    /\ orch.result = "False"
    /\ ~HasEvent("readme")
    /\ ~HasEvent("git_init")
    /\ ~Exists(fs, <<orch.name, "README.md">>)
    /\ ~Exists(fs, <<orch.name, ".git">>)
    /\ IsDir(fs, <<orch.name>>)
    /\ \A i \in 1..Len(history) :
         \A p \in DOMAIN history[i].fs : Exists(fs, p) /\ fs[p] = history[i].fs[p]

\* C7 witness: the frontend install succeeded and created web, the backend
\* install failed, and web is still there when the flow has returned False.
MonorepoFailureWitness ==
  /\ mode = "new"
  /\ orch.monorepo
  /\ Len(history) = 2
  /\ history[1].result = TRUE
  /\ history[2].result = FALSE
  /\ IsDir(fs, <<orch.name, "web">>)
  /\ orch.pc = "done"
  /\ orch.result = "False"

EventIndex(op) == CHOOSE i \in 1..Len(events) : events[i].op = op

\* C8: when validation finds a required tool missing, the creation flow
\* returns False without any dispatch; the init flow asks whether to continue,
\* exits with code 1 unless the answer is yes, and goes on to its next steps
\* when it is.
ValidationFailureIsTerminal ==
  ~validation.all_valid =>
    /\ mode = "new" =>
         /\ orch.pc = "done"
         /\ orch.result = "False"
         /\ ~HasEvent("mkdir")
         /\ ~HasEvent("dispatch")
         /\ history = <<>>
         /\ ipc = "idle"
         /\ calls = <<>>
         /\ fs = InitialFs(args.preexisting)
    /\ mode = "init" =>
         IF ~HasEvent("prompt:continue")
           THEN initc.pc = "prompt_continue"
           ELSE LET answer == events[EventIndex("prompt:continue")].value
                IN  IF answer = "True"
                      THEN /\ initc.result \in {"none", "True"}
                           /\ initc.pc \in {"prompt_install", "prompt_git", "prompt_env",
                                            "prompt_docker", "done"}
                      ELSE /\ initc.pc = "done"
                           /\ initc.result = "SystemExit(1)"
                           /\ events[Len(events)].op = "prompt:continue"
                           /\ calls = <<>>
                           /\ fs = InitFs(args.package_json, args.venv)

\* C8 witness: a tool was missing, the user chose to continue, and the init
\* flow ran to its end.
ValidationFailureWitness ==
  /\ mode = "init"
  /\ ~validation.all_valid
  /\ HasEvent("prompt:continue")
  /\ events[EventIndex("prompt:continue")].value = "True"
  /\ initc.pc = "done"
  /\ initc.result = "True"

\* ------------------------------------------------------------------------
\* Properties of the template writers
\* ------------------------------------------------------------------------

\* the filesystem the current install() call started on, when install() is
\* called directly
InstallStartFs ==
  IF history = <<>> THEN InitialFs(NONE) ELSE history[Len(history)].fs

\* the writer of the current install() call gave up at a write_text call
WriterFailedAtWrite ==
  /\ mode = "api"
  /\ ipc = "returned"
  /\ IsCustom(icfg)
  /\ CustomType(icfg) \in DOMAIN handlers
  /\ wret = "false"
  /\ handlers[CustomType(icfg)][widx].op = "write"

\* C11: when a write_text call raises inside a template writer, the writer
\* returns False, no file after the failing one is written, nothing that was
\* there is removed, and the target directory and the files written before
\* the failure are still there with their content.
WriterFailureKeepsPartialFiles ==
  WriterFailedAtWrite =>
    LET ops == handlers[CustomType(icfg)]
        dirname == project_path[Len(project_path)]
    IN  /\ iresult = FALSE
        /\ \A p \in DOMAIN InstallStartFs : p \in DOMAIN fs
        /\ IsDir(fs, project_path)
        /\ \A i \in 1..(widx - 1) :
             ops[i].op = "write" =>
               /\ Exists(fs, Join(project_path, ops[i].path))
               /\ fs[Join(project_path, ops[i].path)] = Render(ops[i].text, dirname)
        /\ \A j \in (widx + 1)..Len(ops) :
             LET p == Join(project_path, ops[j].path)
             IN  IF p \in DOMAIN InstallStartFs
                   THEN fs[p] = InstallStartFs[p]
                   ELSE p \notin DOMAIN fs

\* C11 witness: the fastapi writer wrote main.py, its write of
\* requirements.txt raised, and it returned False with main.py left in the
\* target directory and README.md never written.
WriterFailureWitness ==
  /\ WriterFailedAtWrite
  /\ history = <<>>
  /\ CustomType(icfg) = "fastapi"
  /\ widx = 3
  /\ faulted
  /\ iresult = FALSE
  /\ Exists(fs, Join(project_path, <<"main.py">>))
  /\ ~Exists(fs, Join(project_path, <<"README.md">>))

\* the current install() call is for a custom entry whose kind has no handler
UnknownCustomKind ==
  /\ ipc # "idle"
  /\ IsCustom(icfg)
  /\ CustomType(icfg) \notin DOMAIN handlers

\* C12: install() for a custom entry whose kind has no template writer returns
\* False at once: no writer is entered, no CommandRunner call is made and the
\* filesystem is what it was when the call started.
UnknownCustomKindFails ==
  /\ UnknownCustomKind =>
        /\ ipc = "returned"
        /\ iresult = FALSE
        /\ wret = "none"
        /\ widx = 0
        /\ calls = <<>>
        /\ ~faulted
        /\ mode = "api" => fs = InstallStartFs
  /\ \A i \in 1..Len(history) :
       (IsCustom(history[i].config) /\ CustomType(history[i].config) \notin DOMAIN handlers)
         => /\ history[i].result = FALSE
            /\ ~history[i].raised
            /\ history[i].calls = <<>>
            /\ history[i].fs = InitialFs(NONE)

\* C12 witness: install() was called with post-install enabled for the entry
\* "custom:no-such-kind", which declares a post-install step, and returned
\* False on an untouched working directory.
UnknownCustomKindWitness ==
  /\ UnknownCustomKind
  /\ ipc = "returned"
  /\ CustomType(icfg) = "no-such-kind"
  /\ Len(icfg.post_install) > 0
  /\ ~iskip
  /\ iresult = FALSE
  /\ fs = InitialFs(NONE)
  /\ ~Exists(fs, project_path)

\* ------------------------------------------------------------------------
\* Properties of the process executor
\* ------------------------------------------------------------------------

\* the child of a call started and exited with code 0
ExitedZero(c) == c.child.starts /\ c.child.exit = 0

\* C13: a CommandRunner.run call in interactive mode never times out and
\* returns True exactly when the child exits with code 0, however long it
\* runs; a call in non-interactive mode returns True exactly when the child
\* exits with code 0 within 300 seconds, and returns False both for a non-zero
\* exit and for a timeout.
RunnerResult ==
  \A i \in 1..Len(calls) :
    LET c == calls[i]
    IN  IF c.show_output
          THEN /\ c.outcome # "timeout"
               /\ c.success = ExitedZero(c)
          ELSE /\ c.success = (ExitedZero(c) /\ c.child.seconds <= 300)
               /\ (c.child.starts /\ c.child.seconds > 300) => c.outcome = "timeout"
               /\ c.outcome \in {"nonzero", "timeout"} => ~c.success

\* C13 witness: the same install() call made an interactive primary call
\* whose child exited 0 after more than five minutes and succeeded, and a
\* non-interactive post-install call whose child would have exited 0 after
\* more than five minutes and was reported as failed.
RunnerResultWitness ==
  /\ Len(calls) >= 2
  /\ calls[1].show_output
  /\ ExitedZero(calls[1])
  /\ calls[1].child.seconds > 300
  /\ calls[1].success
  /\ ~calls[2].show_output
  /\ ExitedZero(calls[2])
  /\ calls[2].child.seconds > 300
  /\ calls[2].outcome = "timeout"
  /\ ~calls[2].success

\* ------------------------------------------------------------------------
\* Properties of the post-install phase
\* ------------------------------------------------------------------------

\* the post-install phase of the current install() call has been entered:
\* the primary command succeeded, steps are declared and not skipped
PostInstallEntered ==
  /\ ~IsCustom(icfg)
  /\ ~iskip
  /\ Len(icfg.post_install) > 0
  /\ Len(calls) >= 1
  /\ calls[1].site = "install"
  /\ calls[1].success

\* C14: the post-install commands are run in their declared order, each once,
\* in the directory parent_dir / project_name and in non-interactive mode:
\* the calls made so far are the first declared commands, and once install()
\* has returned they are all of them, whichever of them failed.
PostInstallOrder ==
  PostInstallEntered =>
    LET post == PostCalls(calls)
    IN  /\ SubSeq(calls, 2, Len(calls)) = post
        /\ Len(post) <= Len(icfg.post_install)
        /\ \A i \in 1..Len(post) :
             /\ post[i].command = icfg.post_install[i]
             /\ post[i].cwd = Join(iparent, <<iname>>)
             /\ post[i].show_output = FALSE
        /\ ipc = "post_install" => Len(post) = pidx - 1
        /\ ipc \in {"returned", "idle"} => Len(post) = Len(icfg.post_install)

\* C14 witness: install() has returned after two post-install steps; the
\* first one failed and the second one was still run, after it.
PostInstallOrderWitness ==
  /\ PostInstallEntered
  /\ ipc = "returned"
  /\ Len(icfg.post_install) = 2
  /\ Len(calls) = 3
  /\ ~calls[2].success
  /\ calls[2].command = icfg.post_install[1]
  /\ calls[3].command = icfg.post_install[2]
  /\ calls[2].command # calls[3].command

\* ------------------------------------------------------------------------
\* Properties of the stack registry
\* ------------------------------------------------------------------------

\* C15: get_projects_by_category raises for no category; it returns the empty
\* list for a category that is not a key of PROJECTS, and for a key exactly
\* the list registered under it, which are the entries of that category.
CategoryLookup ==
  lookup.op = "get_projects_by_category" =>
    /\ ~lookup.raised
    /\ lookup.arg \notin {"frontend", "api", "framework", "mobile", "cli"}
         => lookup.value = <<>>
    /\ lookup.arg \in {"frontend", "api", "framework", "mobile", "cli"}
         => /\ lookup.value = PROJECTS[lookup.arg]
            /\ SeqToSet(lookup.value)
                 = {e \in SeqToSet(all_projects) : e.category = lookup.arg}

\* C15 witness: get_projects_by_category("invalid") has returned the empty
\* list.
CategoryLookupWitness ==
  /\ lookup.op = "get_projects_by_category"
  /\ lookup.arg = "invalid"
  /\ ~lookup.raised
  /\ lookup.value = <<>>

\* C16: entry names are unique in the registry: get_project_by_name(n) raises
\* for no n, returns None for a name no entry has, and for the name of a
\* registered entry returns that very entry, whichever entry carries the name.
NameLookup ==
  lookup.op = "get_project_by_name" =>
    LET carriers == {i \in 1..Len(all_projects) : all_projects[i].name = lookup.arg}
    IN  /\ ~lookup.raised
        /\ Cardinality(carriers) <= 1
        /\ carriers = {} => lookup.value = <<>>
        /\ \A i \in carriers : lookup.value = <<all_projects[i]>>

\* C16 witness: get_project_by_name("flutter") has returned the entry of the
\* mobile category named flutter.
NameLookupWitness ==
  /\ lookup.op = "get_project_by_name"
  /\ lookup.arg = "flutter"
  /\ Len(lookup.value) = 1
  /\ lookup.value[1].name = "flutter"
  /\ lookup.value[1].category = "mobile"

\* how many {name} fields a command template holds
NamePlaceholders(command) ==
  Cardinality({i \in 1..Len(command) : command[i] = "{name}"})

\* C17: the command of every registry entry that is not custom holds the
\* {name} placeholder exactly once.
CommandHasOnePlaceholder ==
  lookup.op = "get_all_projects" =>
    \A i \in 1..Len(lookup.value) :
      ~IsCustom(lookup.value[i]) => NamePlaceholders(lookup.value[i].command) = 1

\* C17 witness: get_all_projects has returned the registry, which holds custom
\* entries and an entry whose placeholder stands in the middle of its command.
CommandHasOnePlaceholderWitness ==
  /\ lookup.op = "get_all_projects"
  /\ \E i \in 1..Len(lookup.value) : IsCustom(lookup.value[i])
  /\ \E i \in 1..Len(lookup.value) :
       /\ ~IsCustom(lookup.value[i])
       /\ Len(lookup.value[i].command) = 3
       /\ lookup.value[i].command[2] = "{name}"

\* C18: every key of the registry is one of frontend, api, framework, mobile,
\* cli; every entry declares the category it is listed under; the name, the
\* display name, the command and the required tools of every entry are not
\* empty.
RegistryWellFormed ==
  lookup.op = "get_projects_by_category" =>
    /\ SeqToSet(get_project_categories) \subseteq {"frontend", "api", "framework", "mobile", "cli"}
    /\ DOMAIN PROJECTS = SeqToSet(get_project_categories)
    /\ \A i \in 1..Len(lookup.value) :
         LET e == lookup.value[i]
         IN  /\ e.category = lookup.arg
             /\ e.category \in {"frontend", "api", "framework", "mobile", "cli"}
             /\ e.name # ""
             /\ e.display_name # ""
             /\ e.command # <<>>
             /\ \A k \in 1..Len(e.command) : e.command[k] # ""
             /\ e.requires # <<>>

\* C18 witness: get_projects_by_category("mobile") has returned three entries.
RegistryWellFormedWitness ==
  /\ lookup.op = "get_projects_by_category"
  /\ lookup.arg = "mobile"
  /\ Len(lookup.value) = 3

\* the tools the creation flow hands to the dependency validator
ValidatedTools ==
  IF orch.monorepo
    THEN SeqToSet(orch.frontend_config.requires) \cup SeqToSet(orch.api_config.requires)
    ELSE SeqToSet(orch.project_config.requires)

\* C19: every tool a registry entry requires is a key of the validator's
\* TOOLS table, so that the validation of an entry's requirements reports on
\* every one of them.
RequiredToolsKnown ==
  /\ lookup.op = "get_all_projects" =>
       \A i \in 1..Len(lookup.value) :
         \A k \in 1..Len(lookup.value[i].requires) :
           lookup.value[i].requires[k] \in TOOLS
  /\ (mode = "new" /\ HasEvent("validate")) =>
       DOMAIN validation.results = ValidatedTools

\* C19 witness: the creation flow has validated the requirements of the
\* flutter entry and the validator reported on flutter.
RequiredToolsKnownWitness ==
  /\ mode = "new"
  /\ HasEvent("validate")
  /\ ~orch.monorepo
  /\ orch.project_config.name = "flutter"
  /\ "flutter" \in DOMAIN validation.results

\* C20: every tool a registry entry requires is one of node, npm, python3,
\* django-admin, composer, pip.
RequiresWithinTestedTools ==
  lookup.op = "get_all_projects" =>
    \A i \in 1..Len(lookup.value) :
      \A k \in 1..Len(lookup.value[i].requires) :
        lookup.value[i].requires[k]
          \in {"node", "npm", "python3", "django-admin", "composer", "pip"}

\* ------------------------------------------------------------------------
\* Properties of the dependency validator
\* ------------------------------------------------------------------------

\* C21: validate raises for no list of tool names; its results have an entry
\* exactly for the required tools that are keys of TOOLS, each telling whether
\* the tool is installed; a name outside TOOLS is never in the results, even
\* when such a program is installed; all_valid is true exactly when every
\* required key of TOOLS is installed, and validate([]) is (True, {}).
ValidateResult ==
  lookup.op = "validate" =>
    LET known == {t \in SeqToSet(args.required) :
                    t \in {"node", "npm", "python3", "pip", "django-admin",
                           "composer", "git", "php", "go", "cargo", "ruby",
                           "rails", "flutter"}}
    IN  /\ ~lookup.raised
        /\ DOMAIN validation.results = known
        /\ \A t \in known : validation.results[t] = (t \in args.available)
        /\ "totally-fake-tool" \notin DOMAIN validation.results
        /\ validation.all_valid = (\A t \in known : t \in args.available)
        /\ args.required = <<>> =>
             (validation.all_valid /\ DOMAIN validation.results = {})

\* C21 witness: validate(["node", "totally-fake-tool"]) on a machine where
\* node is missing and a program totally-fake-tool is installed has reported
\* on node alone, as missing.
ValidateResultWitness ==
  /\ lookup.op = "validate"
  /\ args.required = <<"node", "totally-fake-tool">>
  /\ args.available = {"totally-fake-tool"}
  /\ DOMAIN validation.results = {"node"}
  /\ ~validation.results["node"]
  /\ ~validation.all_valid

\* ------------------------------------------------------------------------
\* Properties of the commands `new` and `init`
\* ------------------------------------------------------------------------

\* the prompts of InitCommand.run
InitPromptOps ==
  {"prompt:continue", "prompt:install", "prompt:git", "prompt:env", "prompt:docker"}

\* some prompt of the run was left without an answer
SomePromptCancelled ==
  \E i \in 1..Len(events) :
    events[i].op \in PromptOps \cup InitPromptOps /\ events[i].value = NONE

\* C22: `new` and `init` exit with 0 exactly when the flow returned True and
\* with 1 when it reported a failure; they exit with 1 when the user cancelled
\* a prompt, and `init` exits with 1 without running any step when the
\* directory does not exist.
ExitCodeReflectsOutcome ==
  /\ (mode = "new" /\ orch.pc = "done") =>
       /\ orch.exit = 0 <=> orch.result = "True"
       /\ orch.exit \in {0, 1}
       /\ SomePromptCancelled => orch.exit = 1
  /\ (mode = "init" /\ initc.pc = "done") =>
       /\ initc.exit = 0 <=> initc.result = "True"
       /\ initc.exit \in {0, 1}
       /\ SomePromptCancelled => initc.exit = 1
       /\ args.path # NONE => (initc.exit = 1 /\ events = <<>> /\ calls = <<>>)

\* ------------------------------------------------------------------------
\* More properties of the project-creation flow
\* ------------------------------------------------------------------------

\* the directory named like the project was there when the flow started
TargetExisted == Exists(InitialFs(args.preexisting), <<orch.name>>)

\* C23: when the directory <name> exists and the user does not confirm the
\* overwrite (answers no, or gives no answer), create_project returns False
\* and nothing runs after that prompt: no mode or stack prompt, no
\* validation, no dispatch, and the filesystem is what it was.  Nothing
\* past the name is reached for an existing directory without a confirmed
\* overwrite.
OverwriteDeclinedStopsFlow ==
  mode = "new" =>
    /\ \A i \in 1..Len(events) :
         (events[i].op = "prompt:overwrite" /\ events[i].value # "True")
           => /\ TargetExisted
              /\ i = Len(events)
              /\ orch.pc = "done"
              /\ orch.result = "False"
              /\ NothingRan
              /\ IsDir(fs, <<orch.name>>)
    /\ (/\ TargetExisted
        /\ \/ ~NothingRan
           \/ \E i \in 1..Len(events) :
                events[i].op \in PromptOps \ {"prompt:name", "prompt:overwrite"})
         => \E i \in 1..Len(events) : events[i] = Event("prompt:overwrite", "True")

\* C23 witness: the directory app existed, the user answered no to
\* "Overwrite?", and create_project returned False right after that prompt.
OverwriteDeclinedWitness ==
  /\ mode = "new"
  /\ args.preexisting = "app"
  /\ TargetExisted
  /\ events # <<>>
  /\ events[Len(events)] = Event("prompt:overwrite", "False")
  /\ orch.pc = "done"
  /\ orch.result = "False"
  /\ fs = InitialFs("app")

\* ------------------------------------------------------------------------
\* The dependency installation of `scaffold init`
\* ------------------------------------------------------------------------

\* the user answered yes to "Install project dependencies?", so
\* _install_dependencies has been called
InstallDependenciesCalled ==
  /\ mode = "init"
  /\ \E i \in 1..Len(events) : events[i] = Event("prompt:install", "True")

\* the calls _install_dependencies made to the command runner
InstallDependenciesCalls == SelectSeq(calls, LAMBDA c : c.site = "_install_dependencies")

\* C24: _install_dependencies runs exactly `npm install`, in the project
\* directory, when the detected package manager is npm and also when none
\* was detected but package.json exists; with no package manager and no
\* package.json it runs no command at all.
InstallDependenciesNpm ==
  InstallDependenciesCalled =>
    LET pm == args.project.package_manager
        ran == InstallDependenciesCalls
    IN  /\ (pm = "npm" \/ (pm = NONE /\ args.package_json))
             => /\ Len(ran) = 1
                /\ ran[1].command = <<"npm install">>
                /\ ran[1].cwd = InitProjectPath(args.path)
        /\ (pm = NONE /\ ~args.package_json) => (ran = <<>> /\ calls = <<>>)

\* C24 witness: no package manager was detected, package.json exists, the
\* user asked for the installation and `npm install` ran in the project
\* directory.
InstallDependenciesNpmWitness ==
  /\ InstallDependenciesCalled
  /\ args.project.package_manager = NONE
  /\ args.package_json
  /\ Len(calls) = 1
  /\ calls[1].site = "_install_dependencies"
  /\ calls[1].command = <<"npm install">>
  /\ calls[1].cwd = Cwd

\* ------------------------------------------------------------------------
\* The stages of the project-creation flow
\* ------------------------------------------------------------------------

\* the stage an entry of the log belongs to: 1 CollectName, 2 CollectMode,
\* 3 CollectStack(s), 4 ValidateTools, 5 Dispatch, 6 Report
StageOf(op) ==
  CASE op \in {"prompt:name", "prompt:overwrite"} -> 1
    [] op = "prompt:monorepo" -> 2
    [] op \in {"prompt:category", "prompt:stack", "prompt:frontend", "prompt:backend"} -> 3
    [] op = "validate" -> 4
    [] op \in {"mkdir", "dispatch"} -> 5
    [] op \in {"readme", "git_init"} -> 6
    [] OTHER -> 0

\* the prompt at position i of the log was answered, and answered yes when
\* it is the overwrite question
Answered(i) ==
  /\ events[i].value # NONE
  /\ events[i].op = "prompt:overwrite" => events[i].value = "True"

\* the run ended at a prompt that was not answered or was declined
Cancelled ==
  /\ orch.pc = "done"
  /\ orch.result = "False"
  /\ events # <<>>
  /\ events[Len(events)].op \in PromptOps
  /\ ~Answered(Len(events))

\* the run ended with True, after the report
Succeeded == orch.pc = "done" /\ orch.result = "True"

\* the run ended with False or with an exception, at validation or later
Failed ==
  /\ orch.pc = "done"
  /\ orch.result \in {"False", "raised"}
  /\ ~Cancelled

\* something of Dispatch has happened: the root directory, an install call,
\* a child process or a change of the filesystem
DispatchStarted ==
  \/ HasEvent("mkdir")
  \/ HasEvent("dispatch")
  \/ Dispatches # <<>>
  \/ calls # <<>>
  \/ fs # InitialFs(args.preexisting)

StagesInOrder ==
  mode = "new" =>
    /\ \A i, j \in 1..Len(events) :
         i < j => /\ StageOf(events[i].op) <= StageOf(events[j].op)
                  /\ StageOf(events[i].op) > 0
                  /\ events[i].op \in PromptOps => Answered(i)
    /\ HasEvent("validate") =>
         /\ orch.name # NONE
         /\ args.monorepo \/ HasEvent("prompt:monorepo")
         /\ IF orch.monorepo
              THEN HasEvent("prompt:frontend") /\ HasEvent("prompt:backend")
              ELSE HasEvent("prompt:category") /\ HasEvent("prompt:stack")
    /\ DispatchStarted =>
         /\ \E i \in 1..Len(events) : events[i] = Event("validate", "True")
         /\ validation.all_valid
    /\ HasEvent("mkdir") => orch.monorepo
    /\ Len(Dispatches) >= 2 => (~history[1].raised /\ history[1].result = TRUE)
    /\ (HasEvent("readme") \/ HasEvent("git_init")) =>
         /\ ipc = "idle"
         /\ Len(history) = (IF orch.monorepo THEN 2 ELSE 1)
         /\ \A i \in 1..Len(history) : ~history[i].raised /\ history[i].result = TRUE
    /\ orch.pc = "done" =>
         /\ Succeeded \/ Failed \/ Cancelled
         /\ ~(Succeeded /\ Failed) /\ ~(Succeeded /\ Cancelled) /\ ~(Failed /\ Cancelled)
         /\ Succeeded => HasEvent("git_init")
         /\ Cancelled => NothingRan
         /\ Failed => HasEvent("validate")

\* a run that has ended takes no further step
TerminalIsFinal ==
  (mode = "new" /\ orch.pc = "done") => UNCHANGED vars

\* C25: every run of create_project goes through CollectName, CollectMode,
\* CollectStack(s), ValidateTools, Dispatch and Report in that order; a stage
\* starts only when the one before it has succeeded; the root directory of a
\* monorepo and every dispatch come after a validation that passed; every
\* run ends, with exactly one of success, failure and cancelled, and stays
\* there.
CreationFlowStages ==
  /\ []StagesInOrder
  /\ [][TerminalIsFinal]_vars
  /\ ((mode = "new") ~> (orch.pc = "done"))

\* C25 witness: a monorepo run has gone through every stage and ended with
\* success: mode asked, both stacks chosen, validation passed, root
\* directory made, two dispatches, README and git.
CreationFlowStagesWitness ==
  /\ mode = "new"
  /\ Succeeded
  /\ orch.monorepo
  /\ HasEvent("prompt:name")
  /\ HasEvent("prompt:monorepo")
  /\ HasEvent("prompt:frontend")
  /\ HasEvent("prompt:backend")
  /\ HasEvent("validate")
  /\ HasEvent("mkdir")
  /\ Len(history) = 2
  /\ HasEvent("readme")
  /\ events[Len(events)].op = "git_init"

\* ------------------------------------------------------------------------
\* Git initialisation in the project-creation flow
\* ------------------------------------------------------------------------

\* the positions of the log where init_repository was called
GitInitCalls == {i \in 1..Len(events) : events[i].op = "git_init"}

\* C26: create_project calls init_repository at most once, only when every
\* dispatch of the run has returned True (one in single mode, both in
\* monorepo mode), and whatever init_repository did (git missing, a git
\* command failing) the flow returns True.
GitInitAfterDispatch ==
  mode = "new" =>
    /\ Cardinality(GitInitCalls) <= 1
    /\ GitInitCalls # {} =>
         /\ ipc = "idle"
         /\ Len(history) = (IF orch.monorepo THEN 2 ELSE 1)
         /\ \A i \in 1..Len(history) : ~history[i].raised /\ history[i].result = TRUE
         /\ GitInitCalls = {Len(events)}
         /\ orch.pc = "done"
         /\ orch.result = "True"
         /\ orch.exit = 0
    /\ orch.result = "True" => GitInitCalls # {}

\* C26 witness: in a monorepo run both dispatches returned True, git then
\* failed, and the flow returned True.
GitInitAfterDispatchWitness ==
  /\ mode = "new"
  /\ orch.monorepo
  /\ Len(history) = 2
  /\ events # <<>>
  /\ events[Len(events)] = Event("git_init", "failed")
  /\ ~Exists(fs, <<orch.name, ".git">>)
  /\ orch.pc = "done"
  /\ orch.result = "True"

\* ------------------------------------------------------------------------
\* The command of a non-custom entry
\* ------------------------------------------------------------------------

\* the template with every {name} field replaced by the name
Substituted(template, project_name) ==
  [i \in 1..Len(template) |-> IF template[i] = "{name}" THEN project_name ELSE template[i]]

\* the template is literal text and {name} fields, as the templates of the
\* registry are
PlainTemplate(template) ==
  \A i \in 1..Len(template) : template[i] \notin RaisingFields \cup {"{{", "}}"}

\* names that can be a directory name: no brace in them
DirectorySafe(project_name) == project_name \notin {"", "{name}", "{", "}"}

\* C27: for a non-custom entry install() hands the command runner exactly one
\* primary command: the template with {name} replaced by the project name,
\* with the parent directory as cwd and show_output equal to the entry's
\* interactive flag; no {name} field is left in it.
PrimaryCommandSubstituted ==
  /\ Len(PrimaryCalls) <= 1
  /\ (ipc \in {"post_install", "returned"} /\ ~IsCustom(icfg)) => Len(PrimaryCalls) = 1
  /\ IsCustom(icfg) => PrimaryCalls = <<>>
  /\ \A i \in 1..Len(PrimaryCalls) :
       LET c == PrimaryCalls[i]
       IN  /\ ~IsCustom(icfg)
           /\ c.cwd = iparent
           /\ c.show_output = icfg.interactive
           /\ PlainTemplate(icfg.command) =>
                /\ c.command = Substituted(icfg.command, iname)
                /\ Len(c.command) = Len(icfg.command)
           /\ DirectorySafe(iname) => \A k \in 1..Len(c.command) : c.command[k] # "{name}"

\* C27 witness: the frontend of a monorepo is an interactive entry; its
\* command ran in the root directory with "web" in the place of {name}.
PrimaryCommandSubstitutedWitness ==
  /\ mode = "new"
  /\ orch.monorepo
  /\ iname = "web"
  /\ icfg.interactive
  /\ "{name}" \in SeqToSet(icfg.command)
  /\ Len(PrimaryCalls) = 1
  /\ PrimaryCalls[1].cwd = <<orch.name>>
  /\ PrimaryCalls[1].show_output
  /\ "web" \in SeqToSet(PrimaryCalls[1].command)
  /\ "{name}" \notin SeqToSet(PrimaryCalls[1].command)

\* ------------------------------------------------------------------------
\* The project name in shell commands
\* ------------------------------------------------------------------------

\* every runner call made so far: those of the install() calls that have
\* returned and those of the running one; each is run with shell=True
ShellCommands ==
  UNION {{history[i].calls[j].command : j \in 1..Len(history[i].calls)} :
           i \in 1..Len(history)}
    \cup {calls[j].command : j \in 1..Len(calls)}

\* C28: no command that reaches the shell holds a project name with a shell
\* metacharacter in it: the name is validated or escaped before it is put
\* into the command template.
NoMetacharacterReachesShell ==
  \A command \in ShellCommands :
    \A k \in 1..Len(command) : Metacharacters(command[k]) = {}

\* ------------------------------------------------------------------------
\* Custom kinds of the registry and the handlers table
\* ------------------------------------------------------------------------

\* the custom kinds the entries of the registry name
RegistryCustomKinds == {CustomType(e) : e \in {p \in get_all_projects : IsCustom(p)}}

\* C29: every custom kind named by an entry of the registry is a key of the
\* handlers table, so that an install of a registry entry never takes the
\* "Unknown custom installer" branch: its writer is entered, and when the
\* call has returned the writer has returned a value.
CustomKindsHaveWriters ==
  /\ RegistryCustomKinds \subseteq DOMAIN handlers
  /\ (icfg \in get_all_projects \/ mode = "new") =>
       /\ ~UnknownCustomKind
       /\ (ipc = "returned" /\ IsCustom(icfg)) => wret \in {"true", "false"}
       /\ (ipc = "writer") => CustomType(icfg) \in DOMAIN handlers
  /\ \A i \in 1..Len(history) :
       (history[i].config \in get_all_projects /\ IsCustom(history[i].config))
         => CustomType(history[i].config) \in DOMAIN handlers

\* C29 witness: the creation flow installed the custom entry rust-cli-clap of
\* the registry and its writer returned a value.
CustomKindsHaveWritersWitness ==
  /\ mode = "new"
  /\ icfg \in get_all_projects
  /\ IsCustom(icfg)
  /\ CustomType(icfg) = "rust-cli-clap"
  /\ ipc = "returned"
  /\ wret = "true"

\* ------------------------------------------------------------------------
\* Selection by label
\* ------------------------------------------------------------------------

\* the value of the answered prompt op in the log, NONE when it is not there
AnswerTo(op) ==
  IF HasEvent(op) THEN events[EventIndex(op)].value ELSE NONE

\* the labels of the list projects are pairwise different and the lookup by
\* a label returns the entry that has it
LabelsResolve(projects) ==
  /\ projects # <<>>
  /\ \A i, j \in 1..Len(projects) :
       projects[i].display_name = projects[j].display_name => i = j
  /\ \A i \in 1..Len(projects) :
       FirstByDisplayName(projects, projects[i].display_name) = projects[i]

\* C30: the labels of the prompts lead back to what was chosen.  At the
\* category prompt every category is what lower() gives for its capitalized
\* label; at a stack prompt the display names of the list shown are pairwise
\* different and the lookup by display name returns the entry of the label;
\* and the entry the flow keeps after a stack prompt is the entry of the
\* prompted list that has the chosen label.
SelectionByLabel ==
  mode = "new" =>
    /\ orch.pc = "prompt_category" =>
         \A c \in SeqToSet(get_project_categories) :
           /\ Lower(Capitalize(c)) = c
           /\ get_projects_by_category(Lower(Capitalize(c))) = PROJECTS[c]
    /\ orch.pc = "prompt_stack" =>
         /\ orch.category \in SeqToSet(get_project_categories)
         /\ Capitalize(orch.category) = AnswerTo("prompt:category")
         /\ LabelsResolve(get_projects_by_category(orch.category))
    /\ orch.pc = "prompt_frontend" => LabelsResolve(get_projects_by_category("frontend"))
    /\ orch.pc = "prompt_backend" => LabelsResolve(get_projects_by_category("api"))
    /\ AnswerTo("prompt:stack") # NONE =>
         /\ orch.category \in DOMAIN PROJECTS
         /\ orch.project_config \in SeqToSet(PROJECTS[orch.category])
         /\ orch.project_config.display_name = AnswerTo("prompt:stack")
    /\ AnswerTo("prompt:frontend") # NONE =>
         /\ orch.frontend_config \in SeqToSet(PROJECTS["frontend"])
         /\ orch.frontend_config.display_name = AnswerTo("prompt:frontend")
    /\ AnswerTo("prompt:backend") # NONE =>
         /\ orch.api_config \in SeqToSet(PROJECTS["api"])
         /\ orch.api_config.display_name = AnswerTo("prompt:backend")

\* C30 witness: the user chose the label "Framework" and then the label of
\* the second entry of that category, and the flow kept that entry.
SelectionByLabelWitness ==
  /\ mode = "new"
  /\ AnswerTo("prompt:category") = "Framework"
  /\ orch.category = "framework"
  /\ AnswerTo("prompt:stack") = PROJECTS["framework"][2].display_name
  /\ orch.project_config = PROJECTS["framework"][2]

====
